---- MODULE Spec2Model ----
(***************************************************************************)
(* State-machine model of the better-auth Razorpay plugin: the webhook     *)
(* endpoint (signature verification, event routing), the per-event         *)
(* subscription handlers of hooks.ts and the upgrade endpoint of routes.ts *)
(* running against the host's persistence adapter and the provider's       *)
(* remote API.                                                             *)
(*                                                                         *)
(* Every request is a process that advances one awaited call at a time     *)
(* (adapter.findOne, adapter.update/create, the user callback, the remote  *)
(* call), so that requests interleave exactly at the code's await points.  *)
(* Dates are numbers (milliseconds); 0 stands for an absent/undefined/null *)
(* date or number, None for an absent string.                              *)
(***************************************************************************)
EXTENDS Integers, Sequences, FiniteSets, TLC

VARIABLES
    options,        \* the plugin options the host passed to razorpay(options)
    subscription,   \* the adapter's "subscription" table, rows in insertion order
    nextId,         \* the adapter's id generator
    razorpaySubs,   \* the provider's subscriptions: id -> what the provider stores
    now,            \* the wall clock read by new Date()
    reqs,           \* the HTTP requests being served: slot -> process record
    delivered,      \* per provider subscription id, the last event a handler applied
                    \* or the call an action endpoint applied after it
    unsynced        \* per provider subscription id, the local write that failed after
                    \* its remote call succeeded, until a webhook for it is processed

vars == <<options, subscription, nextId, razorpaySubs, now, reqs, delivered, unsynced>>

(***************************************************************************)
(* Bounds of the exploration.                                              *)
(***************************************************************************)
MaxTime == 3        \* requests received (the clock ticks once per request)
MaxRows == 2        \* rows the subscription table may hold
MaxInflight == 2    \* requests served concurrently in ConcSpec
MaxRemote == 1      \* subscriptions the upgrade endpoint may create remotely
MaxMembers == 2     \* members the organization plugin may count

None == "none"
NoEvent == [event |-> None]
NoWrite == [unsynced |-> FALSE]
Idle == [kind |-> "idle"]
Slots == 1..MaxInflight

\* the ids the provider gives to subscriptions: one made outside the application,
\* and those the upgrade endpoint creates
SubscriptionIds == {"sub_ext"} \cup {"sub_" \o ToString(n) : n \in 1..(MaxRemote + 1)}

(***************************************************************************)
(* Users, organizations and plans of the host application.                 *)
(***************************************************************************)
SessionUser == [id |-> "u1", razorpayCustomerId |-> "cust_u1", emailVerified |-> TRUE]

\* the caller, and a user whose customer id an organization holds too
UserTable ==
    {SessionUser,
     [id |-> "u3", razorpayCustomerId |-> "cust_shared", emailVerified |-> TRUE]}

OrganizationTable ==
    {[id |-> "org1", razorpayCustomerId |-> "cust_org1"],
     [id |-> "org2", razorpayCustomerId |-> "cust_shared"]}

\* one plan outside any group, two plans that share the group "g", and one plan
\* billed by seats
Plans == <<[name |-> "Pro", planId |-> "plan_X", annualPlanId |-> "plan_X_annual",
            group |-> None, quantity |-> 0, totalCount |-> 12],
           [name |-> "Basic", planId |-> "plan_B", annualPlanId |-> None,
            group |-> "g", quantity |-> 0, totalCount |-> 12],
           [name |-> "Team", planId |-> "plan_T", annualPlanId |-> None,
            group |-> "g", quantity |-> 0, totalCount |-> 12],
           [name |-> "Seats", planId |-> "plan_S", annualPlanId |-> None,
            group |-> None, quantity |-> 5, totalCount |-> 12]>>

\* String.prototype.toLowerCase on the plan names in use
ToLowerCase(s) ==
    CASE s = "Pro" -> "pro" [] s = "PRO" -> "pro"
      [] s = "Basic" -> "basic" [] s = "Team" -> "team"
      [] s = "Seats" -> "seats" [] OTHER -> s

\* Subscriptions created directly on the provider's dashboard, unknown locally.
ExternalSubs == [s \in {"sub_ext"} |->
    [plan_id |-> "plan_X", customer_id |-> "cust_u1", notes |-> [referenceId |-> None]]]

\* Dashboard subscriptions by linkage: of a customer that an organization and a
\* user hold (with a reference in the notes as well), of an organization's customer,
\* of the caller's customer, of nobody's customer with a reference in the notes, and
\* of nobody's customer without one.
LinkedSubs ==
    [s \in {"sub_shared", "sub_org", "sub_ext", "sub_notes", "sub_lost"} |->
       [plan_id |-> "plan_X",
        customer_id |-> CASE s = "sub_shared" -> "cust_shared"
                          [] s = "sub_org" -> "cust_org1"
                          [] s = "sub_ext" -> "cust_u1"
                          [] OTHER -> "cust_none",
        notes |-> [referenceId |-> CASE s \in {"sub_shared", "sub_notes"} -> "u9"
                                     [] OTHER -> None]]]

(***************************************************************************)
(* utils: status helpers, timestamp conversion, plan lookup.               *)
(***************************************************************************)
SubscriptionStatuses == {"created", "authenticated", "active", "pending", "halted",
                         "cancelled", "completed", "expired", "paused"}

ToSubscriptionStatus(s) == IF s \in SubscriptionStatuses THEN s ELSE "created"

\* seconds since epoch -> Date (milliseconds); null, undefined and 0 give undefined
TimestampToDate(t) == IF t = 0 THEN 0 ELSE t * 1000

\* a || b on dates
OrElse(a, b) == IF a # 0 THEN a ELSE b

PlanMatches(p, planId) == p.planId = planId \/ p.annualPlanId = planId

\* the first configured plan whose planId or annualPlanId is planId, else None
GetPlanByPlanId(planId) ==
    IF \E i \in 1..Len(Plans) : PlanMatches(Plans[i], planId)
    THEN Plans[CHOOSE i \in 1..Len(Plans) :
                 /\ PlanMatches(Plans[i], planId)
                 /\ \A j \in 1..(i - 1) : ~PlanMatches(Plans[j], planId)]
    ELSE [name |-> None]

HasPlan(plan) == plan.name # None

IsActive(row) == row.status = "active"

IsPaused(row) == row.status = "paused"

IsCancelled(row) == row.status = "cancelled"

IsTerminal(row) == row.status \in {"cancelled", "completed", "expired"}

(***************************************************************************)
(* The persistence adapter.                                                *)
(***************************************************************************)
\* A row with every field of the schema at its default / absent value.
RowDefaults ==
    [id |-> 0, plan |-> None, referenceId |-> None, razorpayCustomerId |-> None,
     razorpaySubscriptionId |-> None, razorpayPlanId |-> None, status |-> "created",
     currentStart |-> 0, currentEnd |-> 0, endedAt |-> 0, quantity |-> 1,
     totalCount |-> 0, paidCount |-> 0, remainingCount |-> 0, cancelledAt |-> 0,
     pausedAt |-> 0, shortUrl |-> None, cancelAtCycleEnd |-> FALSE, groupId |-> None]

\* the first (insertion order) of the matching row indexes, 0 when none matches
FirstIndex(matching) ==
    IF matching = {} THEN 0
    ELSE CHOOSE i \in matching : \A j \in matching : i <= j

\* adapter.create: the data over the schema defaults, with a generated id
AdapterCreate(db, id, data) == Append(db, [id |-> id] @@ data @@ RowDefaults)

\* an update whose where clause matches every row
AdapterUpdate_EveryRow(db, id, update) ==
    [i \in 1..Len(db) |-> update @@ db[i]]

\* adapter.update where id = id: the given fields overwrite the row's
AdapterUpdate(db, id, update) ==
    [i \in 1..Len(db) |-> IF db[i].id = id THEN update @@ db[i] ELSE db[i]]

\* adapter.delete where id = id
AdapterDelete(db, id) == SelectSeq(db, LAMBDA row : row.id # id)

RowById(db, id) == db[FirstIndex({i \in 1..Len(db) : db[i].id = id})]

HasRow(db, id) == \E i \in 1..Len(db) : db[i].id = id

(***************************************************************************)
(* hooks.ts: lookups.                                                      *)
(***************************************************************************)
\* a lookup that misses every row
FindSubscriptionByRazorpayId_NeverFinds(db, razorpaySubscriptionId) == 0

\* findSubscriptionByRazorpayId: id of the first row with that provider id, else 0
FindSubscriptionByRazorpayId(db, razorpaySubscriptionId) ==
    LET i == FirstIndex({j \in 1..Len(db) :
                             db[j].razorpaySubscriptionId = razorpaySubscriptionId})
    IN  IF i = 0 THEN 0 ELSE db[i].id

\* a lookup that asks the user table before the organization table
FindReferenceByRazorpayCustomerId_UserFirst(opts, razorpayCustomerId) ==
    IF \E u \in UserTable : u.razorpayCustomerId = razorpayCustomerId
    THEN (CHOOSE u \in UserTable : u.razorpayCustomerId = razorpayCustomerId).id
    ELSE IF opts.organizationEnabled
            /\ \E o \in OrganizationTable : o.razorpayCustomerId = razorpayCustomerId
    THEN (CHOOSE o \in OrganizationTable : o.razorpayCustomerId = razorpayCustomerId).id
    ELSE None

\* findReferenceByRazorpayCustomerId: organization first (if enabled), then user
FindReferenceByRazorpayCustomerId(opts, razorpayCustomerId) ==
    IF opts.organizationEnabled
       /\ \E o \in OrganizationTable : o.razorpayCustomerId = razorpayCustomerId
    THEN (CHOOSE o \in OrganizationTable : o.razorpayCustomerId = razorpayCustomerId).id
    ELSE IF \E u \in UserTable : u.razorpayCustomerId = razorpayCustomerId
    THEN (CHOOSE u \in UserTable : u.razorpayCustomerId = razorpayCustomerId).id
    ELSE None

\* the referenceId a creating handler resolves: customer id first, then the notes
ResolveReference(opts, ent) ==
    LET byCustomer == IF ent.customer_id # None
                      THEN FindReferenceByRazorpayCustomerId(opts, ent.customer_id)
                      ELSE None
    IN  IF byCustomer # None THEN byCustomer ELSE ent.notes.referenceId

(***************************************************************************)
(* Webhook events as the provider sends them.                              *)
(***************************************************************************)
HandledEvents == {"subscription.authenticated", "subscription.activated",
                  "subscription.charged", "subscription.pending",
                  "subscription.halted", "subscription.completed",
                  "subscription.updated", "subscription.paused",
                  "subscription.resumed", "subscription.cancelled"}

EventTypes == HandledEvents \cup {"payment.captured"}

\* the status the provider reports in the entity of an event of type t
ReportedStatuses(t) ==
    CASE t \in {"subscription.charged", "subscription.updated", "subscription.resumed"}
           -> {"active", "unknown_status"}
      [] t = "subscription.authenticated" -> {"authenticated"}
      [] t = "subscription.pending" -> {"pending"}
      [] t = "subscription.halted" -> {"halted"}
      [] t = "subscription.completed" -> {"completed"}
      [] t = "subscription.paused" -> {"paused"}
      [] t = "subscription.cancelled" -> {"cancelled"}
      [] OTHER -> {"active"}

\* ended_at / paused_at (seconds) the provider reports, 0 when it reports none
ReportedStamps(t) ==
    IF t \in {"subscription.completed", "subscription.cancelled", "subscription.paused"}
    THEN {0, 5} ELSE {0}

\* the events of the given types the provider can send about its subscriptions
WebhookEvents(types, remote) ==
    UNION {{[event |-> t, sid |-> s, status |-> st, stamp |-> k] :
              st \in ReportedStatuses(t), k \in ReportedStamps(t)} :
           t \in types, s \in DOMAIN remote}

\* event.payload.subscription.entity of an event about the provider's subscription
Entity(ev, remote) ==
    [id |-> ev.sid,
     plan_id |-> remote[ev.sid].plan_id,
     customer_id |-> remote[ev.sid].customer_id,
     notes |-> remote[ev.sid].notes,
     status |-> ev.status,
     current_start |-> 10, current_end |-> 20,
     ended_at |-> IF ev.event \in {"subscription.completed", "subscription.cancelled"}
                  THEN ev.stamp ELSE 0,
     paused_at |-> IF ev.event = "subscription.paused" THEN ev.stamp ELSE 0,
     quantity |-> 1, total_count |-> 12, paid_count |-> 1, remaining_count |-> 11,
     short_url |-> "https://rzp.io/abc"]

\* a request body that is not JSON
MalformedBody == [event |-> "not json"]

\* a body that differs from b
Mutate(b) == [tampered |-> b]

\* The text of a body: the value it carries and its formatting (whitespace, key
\* order).  JSON.stringify writes one formatting only; JSON.parse forgets it.
Formats == {"compact", "spaced"}

Text(value, format) == [value |-> value, format |-> format]

\* no text read yet
NoText == [read |-> FALSE]

JsonStringify(value) == Text(value, "compact")

JsonParse(text) == text.value

\* rawBody: ctx.request.text(), or when that throws because the body stream was
\* already consumed, JSON.stringify(ctx.body)
RawBody(r, consumed) ==
    IF consumed THEN JsonStringify(r.body) ELSE Text(r.body, r.format)

(***************************************************************************)
(* Signature verification (routes.ts, razorpayWebhook).  A string is its   *)
(* byte length and its content; HMAC-SHA256 is a keyed function from       *)
(* bodies to hex digests of one fixed length, without collisions.          *)
(***************************************************************************)
HexDigestLen == 64

\* a digest that does not depend on the key
Hmac_Unkeyed(key, body) == [len |-> HexDigestLen, text |-> <<"key", body>>]

Hmac(key, body) == [len |-> HexDigestLen, text |-> <<key, body>>]

NoSignature == [len |-> 0, text |-> <<>>]

ShortSignature == [len |-> 7, text |-> <<"invalid">>]

\* a comparison of the lengths alone
TimingSafeEqual_LengthOnly(a, b) ==
    IF a.len # b.len THEN "RangeError" ELSE "true"

\* crypto.timingSafeEqual throws a RangeError on buffers of different byte length
TimingSafeEqual(a, b) ==
    IF a.len # b.len THEN "RangeError"
    ELSE IF a.text = b.text THEN "true" ELSE "false"

\* the outcome of the endpoint's checks up to and including the comparison
VerifyWebhook(webhookSecret, signature, rawBody) ==
    IF webhookSecret = None THEN "WEBHOOK_SECRET_NOT_FOUND"
    ELSE IF signature.len = 0 THEN "WEBHOOK_SIGNATURE_NOT_FOUND"
    ELSE LET isValid == TimingSafeEqual(signature, Hmac(webhookSecret, rawBody))
         IN  CASE isValid = "RangeError" -> "RangeError"
               [] isValid = "false" -> "FAILED_TO_VERIFY_WEBHOOK"
               [] OTHER -> "ok"

\* whether the endpoint computed an HMAC before answering
HmacComputed(outcome) ==
    outcome \notin {"WEBHOOK_SECRET_NOT_FOUND", "WEBHOOK_SIGNATURE_NOT_FOUND"}

\* createAPIError's HTTP status for the error codes the endpoint throws; an
\* exception that is no APIError (RangeError, a throwing onEvent) is a 500
HttpStatus(code) ==
    CASE code \in {"WEBHOOK_SIGNATURE_NOT_FOUND", "FAILED_TO_VERIFY_WEBHOOK",
                   "WEBHOOK_ERROR", "REFERENCE_ID_NOT_ALLOWED",
                   "AUTHORIZE_REFERENCE_REQUIRED", "ORGANIZATION_REFERENCE_ID_REQUIRED",
                   "SUBSCRIPTION_PLAN_NOT_FOUND", "CUSTOMER_NOT_FOUND",
                   "ALREADY_SUBSCRIBED_PLAN", "SUBSCRIPTION_ALREADY_CANCELLED",
                   "SUBSCRIPTION_NOT_ACTIVE", "SUBSCRIPTION_ALREADY_PAUSED",
                   "SUBSCRIPTION_NOT_PAUSED"} -> 400
      [] code = "UNAUTHORIZED" -> 401
      [] code = "EMAIL_VERIFICATION_REQUIRED" -> 403
      [] code = "SUBSCRIPTION_NOT_FOUND" -> 404
      [] code \in {"received", "ok"} -> 200
      [] OTHER -> 500

(***************************************************************************)
(* hooks.ts: what each handler writes.  `at` is new Date().  Every handler *)
(* also passes updatedAt: new Date(); the subscription schema (schema.ts)  *)
(* declares no such field, so no row stores it and the writes omit it.     *)
(***************************************************************************)
\* onSubscriptionAuthenticated, existing row
AuthenticatedUpdate(ent) == [status |-> "authenticated"]

\* onSubscriptionAuthenticated, no row: the record created from the event
AuthenticatedCreate(ent, plan, referenceId) ==
    [plan |-> IF HasPlan(plan) THEN ToLowerCase(plan.name) ELSE ent.plan_id,
     referenceId |-> referenceId,
     razorpayCustomerId |-> ent.customer_id,
     razorpaySubscriptionId |-> ent.id,
     razorpayPlanId |-> ent.plan_id,
     status |-> "authenticated",
     quantity |-> ent.quantity,
     totalCount |-> ent.total_count,
     paidCount |-> ent.paid_count,
     remainingCount |-> ent.remaining_count,
     shortUrl |-> ent.short_url]

\* update data that leave the status of the row as it is
ActivatedUpdateData_KeepsStatus(ent) ==
    [razorpayPlanId |-> ent.plan_id,
     razorpayCustomerId |-> ent.customer_id,
     currentStart |-> TimestampToDate(ent.current_start),
     currentEnd |-> TimestampToDate(ent.current_end),
     quantity |-> ent.quantity,
     totalCount |-> ent.total_count,
     paidCount |-> ent.paid_count,
     remainingCount |-> ent.remaining_count,
     shortUrl |-> ent.short_url]

\* onSubscriptionActivated: updateData
ActivatedUpdateData(ent) ==
    [status |-> "active",
     razorpayPlanId |-> ent.plan_id,
     razorpayCustomerId |-> ent.customer_id,
     currentStart |-> TimestampToDate(ent.current_start),
     currentEnd |-> TimestampToDate(ent.current_end),
     quantity |-> ent.quantity,
     totalCount |-> ent.total_count,
     paidCount |-> ent.paid_count,
     remainingCount |-> ent.remaining_count,
     shortUrl |-> ent.short_url]

\* onSubscriptionActivated, existing row: updateData, and the plan if it resolved
ActivatedUpdate(ent, plan) ==
    IF HasPlan(plan)
    THEN [plan |-> ToLowerCase(plan.name)] @@ ActivatedUpdateData(ent)
    ELSE ActivatedUpdateData(ent)

\* a created record that does not carry the provider subscription id
ActivatedCreate_NoProviderId(ent, plan, referenceId) ==
    [plan |-> IF HasPlan(plan) THEN ToLowerCase(plan.name) ELSE ent.plan_id,
     referenceId |-> referenceId] @@ ActivatedUpdateData(ent)

\* onSubscriptionActivated, no row: the record created from the event
ActivatedCreate(ent, plan, referenceId) ==
    [plan |-> IF HasPlan(plan) THEN ToLowerCase(plan.name) ELSE ent.plan_id,
     referenceId |-> referenceId,
     razorpaySubscriptionId |-> ent.id] @@ ActivatedUpdateData(ent)

\* a charged handler that leaves the status of the record as it is
ChargedUpdate_KeepsStatus(ent) ==
    [currentStart |-> TimestampToDate(ent.current_start),
     currentEnd |-> TimestampToDate(ent.current_end),
     paidCount |-> ent.paid_count,
     remainingCount |-> ent.remaining_count]

ChargedUpdate(ent) ==
    [status |-> ToSubscriptionStatus(ent.status),
     currentStart |-> TimestampToDate(ent.current_start),
     currentEnd |-> TimestampToDate(ent.current_end),
     paidCount |-> ent.paid_count,
     remainingCount |-> ent.remaining_count]

PendingUpdate(ent) == [status |-> "pending"]

HaltedUpdate(ent) == [status |-> "halted"]

CompletedUpdate(ent, at) ==
    [status |-> "completed",
     endedAt |-> OrElse(TimestampToDate(ent.ended_at), at),
     paidCount |-> ent.paid_count,
     remainingCount |-> 0]

\* an updated handler that stores the provider's status string as it comes
UpdatedUpdateData_RawStatus(ent) ==
    [status |-> ent.status,
     razorpayPlanId |-> ent.plan_id,
     currentStart |-> TimestampToDate(ent.current_start),
     currentEnd |-> TimestampToDate(ent.current_end),
     quantity |-> ent.quantity,
     totalCount |-> ent.total_count,
     paidCount |-> ent.paid_count,
     remainingCount |-> ent.remaining_count]

UpdatedUpdateData(ent) ==
    [status |-> ToSubscriptionStatus(ent.status),
     razorpayPlanId |-> ent.plan_id,
     currentStart |-> TimestampToDate(ent.current_start),
     currentEnd |-> TimestampToDate(ent.current_end),
     quantity |-> ent.quantity,
     totalCount |-> ent.total_count,
     paidCount |-> ent.paid_count,
     remainingCount |-> ent.remaining_count]

UpdatedUpdate(ent, plan) ==
    IF HasPlan(plan)
    THEN [plan |-> ToLowerCase(plan.name)] @@ UpdatedUpdateData(ent)
    ELSE UpdatedUpdateData(ent)

\* a handler that records the pause as a halt
PausedUpdate_Halts(ent, at) ==
    [status |-> "halted",
     pausedAt |-> OrElse(TimestampToDate(ent.paused_at), at)]

PausedUpdate(ent, at) ==
    [status |-> "paused",
     pausedAt |-> OrElse(TimestampToDate(ent.paused_at), at)]

ResumedUpdate(ent) ==
    [status |-> ToSubscriptionStatus(ent.status),
     pausedAt |-> 0,
     currentStart |-> TimestampToDate(ent.current_start),
     currentEnd |-> TimestampToDate(ent.current_end)]

CancelledUpdate(ent, at) ==
    [status |-> "cancelled",
     cancelledAt |-> at,
     endedAt |-> OrElse(TimestampToDate(ent.ended_at), at)]

\* the update a handler passes to adapter.update for an existing row
HandlerUpdate(type, ent, at) ==
    CASE type = "subscription.authenticated" -> AuthenticatedUpdate(ent)
      [] type = "subscription.activated" -> ActivatedUpdate(ent, GetPlanByPlanId(ent.plan_id))
      [] type = "subscription.charged" -> ChargedUpdate(ent)
      [] type = "subscription.pending" -> PendingUpdate(ent)
      [] type = "subscription.halted" -> HaltedUpdate(ent)
      [] type = "subscription.completed" -> CompletedUpdate(ent, at)
      [] type = "subscription.updated" -> UpdatedUpdate(ent, GetPlanByPlanId(ent.plan_id))
      [] type = "subscription.paused" -> PausedUpdate(ent, at)
      [] type = "subscription.resumed" -> ResumedUpdate(ent)
      [] type = "subscription.cancelled" -> CancelledUpdate(ent, at)

\* the handlers that create a record when no row matches the event
CreatingEvents == {"subscription.authenticated", "subscription.activated"}

\* the data a creating handler passes to adapter.create
HandlerCreate(type, ent, referenceId) ==
    IF type = "subscription.authenticated"
    THEN AuthenticatedCreate(ent, GetPlanByPlanId(ent.plan_id), referenceId)
    ELSE ActivatedCreate(ent, GetPlanByPlanId(ent.plan_id), referenceId)

\* whether the handler calls its user callback after a successful write:
\* options.subscription.onSubscriptionX?.(...), for activated only if (plan)
InvokesCallback(opts, type, ent) ==
    /\ opts.callbacks
    /\ type = "subscription.activated" => HasPlan(GetPlanByPlanId(ent.plan_id))

(***************************************************************************)
(* Requests.  A request occupies a slot from its arrival to its release;   *)
(* `trace` lists, in order, the calls the request made that an observer    *)
(* can see (HMAC computation, onEvent, adapter calls, callbacks, logging);  *)
(* "throw" marks that the call before it threw.                            *)
(***************************************************************************)
Busy == {s \in Slots : reqs[s] # Idle}

FreeSlot(limit) ==
    CHOOSE s \in 1..limit : reqs[s] = Idle /\ \A t \in 1..(s - 1) : reqs[t] # Idle

\* a request may arrive: the clock has not run out and a slot is free
CanAccept(env) == now < env.clock /\ \E s \in 1..env.limit : reqs[s] = Idle

\* there is room for the row the arriving request may create
Room(env) == Len(subscription) + Cardinality(Busy) < env.rows

NoResponse == [status |-> 0, code |-> None]

Respond(r, code, calls) ==
    [r EXCEPT !.pc = "done",
              !.response = [status |-> HttpStatus(code), code |-> code],
              !.trace = @ \o calls]

Step(r, pc, calls) == [r EXCEPT !.pc = pc, !.trace = @ \o calls]

(***************************************************************************)
(* routes.ts, razorpayWebhook: from the arrival of the request to the      *)
(* dispatch to the per-event handler.                                      *)
(***************************************************************************)
WebhookRequest(body, signature) ==
    [kind |-> "webhook", pc |-> "received", body |-> body, format |-> "compact",
     rawBody |-> NoText, signature |-> signature, found |-> 0, ref |-> None, replay |-> FALSE,
     confirms |-> FALSE, trace |-> <<>>, response |-> NoResponse]

\* the endpoint up to the switch: secret, signature header, raw body, HMAC,
\* comparison, JSON.parse, onEvent, then the route to the handler
RazorpayWebhook(opts, req, consumed, onEventThrows) ==
    LET rawBody == RawBody(req, consumed)
        outcome == VerifyWebhook(opts.razorpayWebhookSecret, req.signature, rawBody)
        hmac    == IF HmacComputed(outcome) THEN <<"hmac">> ELSE <<>>
        r       == IF HmacComputed(outcome) THEN [req EXCEPT !.rawBody = rawBody] ELSE req
        event   == JsonParse(rawBody)
    IN  IF outcome # "ok" THEN Respond(r, outcome, hmac)
        ELSE IF event = MalformedBody THEN Respond(r, "WEBHOOK_ERROR", hmac)
        ELSE IF opts.onEvent /\ onEventThrows
             THEN Respond(r, "onEvent threw", hmac \o <<"onEvent", "throw">>)
        ELSE LET seen == hmac \o (IF opts.onEvent THEN <<"onEvent">> ELSE <<>>)
             IN  IF event.event \in HandledEvents
                 THEN Step(r, "find", seen \o <<"handler">>)
                 ELSE Respond(r, "received", seen \o <<"logger.info">>)

\* the signatures a sender may attach to body: an HMAC of the body or of another
\* body under one of the keys, a string of another length, or none
Signatures(body, env) ==
    {Hmac(k, b) : k \in env.keys, b \in {body} \cup (IF env.tamper THEN {Mutate(body)} ELSE {})}
    \cup (IF env.tamper THEN {ShortSignature, NoSignature} ELSE {})

\* whether the body stream of an arriving request has been read before the endpoint
\* runs; a body that is not JSON does not get that far
Consumed(body, env) == IF body = MalformedBody THEN {FALSE} ELSE env.consumed

WebhookReceive(env) ==
    /\ CanAccept(env)
    /\ \E body \in WebhookEvents(env.types, razorpaySubs) \cup env.otherBodies :
         /\ body.event \in CreatingEvents => Room(env)
         /\ \E format \in env.formats, consumed \in Consumed(body, env),
                 onEventThrows \in env.faults :
              \E signature \in Signatures(Text(body, format), env) :
                reqs' = [reqs EXCEPT ![FreeSlot(env.limit)] =
                           RazorpayWebhook(options,
                                           [WebhookRequest(body, signature)
                                              EXCEPT !.format = format],
                                           consumed, onEventThrows)]
    /\ now' = now + 1
    /\ UNCHANGED <<options, subscription, nextId, razorpaySubs, delivered, unsynced>>

(***************************************************************************)
(* hooks.ts, onSubscriptionX: lookup, write, callback.  A failing call     *)
(* (adapter or user callback) throws an Error object, whose message the    *)
(* handler's catch block logs.                                             *)
(***************************************************************************)
\* once the handler of a verified event has ended, the event counts as the webhook
\* that followed a failed local write for its subscription
Synced(r, pending) ==
    IF r.pc = "done" /\ r.body.sid \in DOMAIN pending
    THEN [pending EXCEPT ![r.body.sid] = NoWrite] ELSE pending

\* an event of type t whose payload carries no subscription entity
NoEntityEvent(t) == [event |-> t, sid |-> None, status |-> None, stamp |-> 0]

\* a handler that goes on whatever options.subscription.enabled says
ReturnsEarly_EntityOnly(opts, ev) == ev.sid = None

\* the first lines of every handler: return when subscriptions are disabled or the
\* payload has no subscription entity
ReturnsEarly(opts, ev) == ~opts.subscriptionEnabled \/ ev.sid = None

\* a handler of any event that goes on to create the record it did not find
HandlerFind_AlwaysCreates(opts, db, r, remote) ==
    LET ent == Entity(r.body, remote)
        id  == FindSubscriptionByRazorpayId(db, ent.id)
        ref == ResolveReference(opts, ent)
    IN  IF ReturnsEarly(opts, r.body) THEN Respond(r, "received", <<>>)
        ELSE IF id # 0
             THEN [Step(r, "write", <<"findOne">>) EXCEPT !.found = id]
        ELSE IF ref = None
             THEN Respond(r, "received", <<"findOne", "logger.warn">>)
        ELSE [Step(r, "write", <<"findOne">>) EXCEPT !.ref = ref]

\* the handler after its lookups: findSubscriptionByRazorpayId, and for a creating
\* handler that found nothing, the reference resolution
HandlerFind(opts, db, r, remote) ==
    LET ent == Entity(r.body, remote)
        id  == FindSubscriptionByRazorpayId(db, ent.id)
        ref == ResolveReference(opts, ent)
    IN  IF ReturnsEarly(opts, r.body) THEN Respond(r, "received", <<>>)
        ELSE IF id # 0
             THEN [Step(r, "write", <<"findOne">>) EXCEPT !.found = id]
        ELSE IF r.body.event \notin CreatingEvents \/ ref = None
             THEN Respond(r, "received", <<"findOne", "logger.warn">>)
        ELSE [Step(r, "write", <<"findOne">>) EXCEPT !.ref = ref]

WebhookFind(env) ==
    \E s \in Slots :
      /\ reqs[s].kind = "webhook" /\ reqs[s].pc = "find"
      /\ \E fails \in env.faults :
           reqs' = [reqs EXCEPT ![s] =
                      IF fails /\ ~ReturnsEarly(options, @.body)
                      THEN Respond(@, "received", <<"findOne", "throw", "logger.error">>)
                      ELSE HandlerFind(options, subscription, @, razorpaySubs)]
      /\ unsynced' = Synced(reqs'[s], unsynced)
      /\ UNCHANGED <<options, subscription, nextId, razorpaySubs, now, delivered>>

\* the call of an action endpoint whose change an event reports back ("api.", the
\* mark of no call, when the event reports none)
ConfirmedCall(ev) ==
    CASE ev.event = "subscription.paused" -> "api.pause"
      [] ev.event = "subscription.resumed" /\ ev.status = "active" -> "api.resume"
      [] ev.event = "subscription.cancelled" -> "api.cancel"
      [] OTHER -> "api."

\* the table after the handler's write: adapter.update of the row found, or
\* adapter.create of a new record
HandlerWrite(db, id, r, remote, at) ==
    LET ent == Entity(r.body, remote)
    IN  IF r.found # 0
        THEN AdapterUpdate(db, r.found, HandlerUpdate(r.body.event, ent, at))
        ELSE AdapterCreate(db, id, HandlerCreate(r.body.event, ent, r.ref))

WebhookWrite(env) ==
    \E s \in Slots :
      /\ reqs[s].kind = "webhook" /\ reqs[s].pc = "write"
      /\ \E fails \in env.faults :
           IF fails
           THEN /\ reqs' = [reqs EXCEPT ![s] = Respond(@, "received", <<"throw", "logger.error">>)]
                /\ UNCHANGED <<subscription, nextId, delivered>>
           ELSE /\ subscription' = HandlerWrite(subscription, nextId, reqs[s],
                                                razorpaySubs, now)
                /\ nextId' = IF reqs[s].found # 0 THEN nextId ELSE nextId + 1
                /\ delivered' = [delivered EXCEPT ![reqs[s].body.sid] = reqs[s].body]
                /\ reqs' = [reqs EXCEPT ![s] =
                       [Step(reqs[s], "callback",
                             IF reqs[s].found # 0 THEN <<"update">> ELSE <<"create">>)
                          EXCEPT !.replay = (delivered[reqs[s].body.sid] = reqs[s].body),
                                 !.confirms = (delivered[reqs[s].body.sid].event
                                                 = ConfirmedCall(reqs[s].body)),
                                 !.found = IF reqs[s].found # 0 THEN reqs[s].found ELSE nextId]]
      /\ unsynced' = Synced(reqs'[s], unsynced)
      /\ UNCHANGED <<options, razorpaySubs, now>>

\* a handler without catch block: the callback's error reaches the endpoint
HandlerCallback_NoCatch(opts, r, remote, throws) ==
    IF ~InvokesCallback(opts, r.body.event, Entity(r.body, remote))
    THEN Respond(r, "received", <<>>)
    ELSE IF throws THEN Respond(r, "callback threw", <<"callback", "throw">>)
    ELSE Respond(r, "received", <<"callback">>)

\* the handler's tail: the user callback, whose error the catch block logs
HandlerCallback(opts, r, remote, throws) ==
    IF ~InvokesCallback(opts, r.body.event, Entity(r.body, remote))
    THEN Respond(r, "received", <<>>)
    ELSE IF throws THEN Respond(r, "received", <<"callback", "throw", "logger.error">>)
    ELSE Respond(r, "received", <<"callback">>)

WebhookCallback(env) ==
    \E s \in Slots :
      /\ reqs[s].kind = "webhook" /\ reqs[s].pc = "callback"
      /\ \E throws \in env.faults :
           reqs' = [reqs EXCEPT ![s] = HandlerCallback(options, @, razorpaySubs, throws)]
      /\ unsynced' = Synced(reqs'[s], unsynced)
      /\ UNCHANGED <<options, subscription, nextId, razorpaySubs, now, delivered>>

\* the response has been sent; the slot is free again
Release ==
    \E s \in Slots :
      /\ reqs[s] # Idle /\ reqs[s].pc = "done"
      /\ reqs' = [reqs EXCEPT ![s] = Idle]
      /\ UNCHANGED <<options, subscription, nextId, razorpaySubs, now, delivered, unsynced>>

(***************************************************************************)
(* middleware.ts and routes.ts, upgradeSubscription.                       *)
(***************************************************************************)
\* the session of the caller
Session == [user |-> SessionUser, activeOrganizationId |-> None]

\* a middleware that lets an explicit reference pass when no hook is configured
ReferenceMiddleware_NoHookAllows(opts, body) ==
    LET explicit == body.referenceId
        orgRef   == IF explicit # None THEN explicit ELSE Session.activeOrganizationId
    IN  IF body.customerType = "organization"
        THEN IF opts.authorizeReference = "absent" THEN "AUTHORIZE_REFERENCE_REQUIRED"
             ELSE IF orgRef = None THEN "ORGANIZATION_REFERENCE_ID_REQUIRED"
             ELSE IF opts.authorizeReference = "deny" THEN "UNAUTHORIZED"
             ELSE "pass"
        ELSE IF explicit = None THEN "pass"
        ELSE IF explicit = Session.user.id THEN "pass"
        ELSE IF opts.authorizeReference = "deny" THEN "UNAUTHORIZED"
        ELSE "pass"

\* referenceMiddleware: "pass", or the error code it throws.  The hook
\* authorizeReference is absent, or answers allow / deny.
ReferenceMiddleware(opts, body) ==
    LET explicit == body.referenceId
        orgRef   == IF explicit # None THEN explicit ELSE Session.activeOrganizationId
    IN  IF body.customerType = "organization"
        THEN IF opts.authorizeReference = "absent" THEN "AUTHORIZE_REFERENCE_REQUIRED"
             ELSE IF orgRef = None THEN "ORGANIZATION_REFERENCE_ID_REQUIRED"
             ELSE IF opts.authorizeReference = "deny" THEN "UNAUTHORIZED"
             ELSE "pass"
        ELSE IF explicit = None THEN "pass"
        ELSE IF explicit = Session.user.id THEN "pass"
        ELSE IF opts.authorizeReference = "absent" THEN "REFERENCE_ID_NOT_ALLOWED"
        ELSE IF opts.authorizeReference = "deny" THEN "UNAUTHORIZED"
        ELSE "pass"

NoCall == [called |-> FALSE]

\* a middleware that asks the hook about the caller instead of the reference
AuthorizeCall_AsksAboutCaller(opts, body, action) ==
    LET call(ref) == [user |-> Session.user.id, referenceId |-> ref, action |-> action]
    IN  IF opts.authorizeReference = "absent" THEN NoCall
        ELSE IF body.customerType = "organization" THEN call(Session.user.id)
        ELSE IF body.referenceId = None \/ body.referenceId = Session.user.id THEN NoCall
        ELSE call(Session.user.id)

\* referenceMiddleware: the arguments it passes to authorizeReference, when it
\* calls the hook
AuthorizeCall(opts, body, action) ==
    LET explicit == body.referenceId
        orgRef   == IF explicit # None THEN explicit ELSE Session.activeOrganizationId
        call(ref) == [user |-> Session.user.id, referenceId |-> ref, action |-> action]
    IN  IF opts.authorizeReference = "absent" THEN NoCall
        ELSE IF body.customerType = "organization"
             THEN IF orgRef = None THEN NoCall ELSE call(orgRef)
        ELSE IF explicit = None \/ explicit = Session.user.id THEN NoCall
        ELSE call(explicit)

\* plans.find(p => p.name.toLowerCase() === name.toLowerCase())
GetPlanByName(name) ==
    LET hit(p) == ToLowerCase(p.name) = ToLowerCase(name)
    IN  IF \E i \in 1..Len(Plans) : hit(Plans[i])
        THEN Plans[CHOOSE i \in 1..Len(Plans) :
                     hit(Plans[i]) /\ \A j \in 1..(i - 1) : ~hit(Plans[j])]
        ELSE [name |-> None]

\* body.referenceId || (organization ? activeOrganizationId : user.id)
ActionReference(body) ==
    IF body.referenceId # None THEN body.referenceId
    ELSE IF body.customerType = "organization" THEN Session.activeOrganizationId
    ELSE Session.user.id

UpgradeRequest(body) ==
    [kind |-> "upgrade", pc |-> "received", body |-> body, referenceId |-> None,
     rowId |-> 0, remoteId |-> None, authorized |-> NoCall, entered |-> FALSE,
     trace |-> <<>>, response |-> NoResponse]

\* the middleware and the checks made before the first persistence call
UpgradeBegin(opts, req) ==
    LET mw   == ReferenceMiddleware(opts, req.body)
        plan == GetPlanByName(req.body.plan)
        ref  == ActionReference(req.body)
        held == [req EXCEPT !.authorized = AuthorizeCall(opts, req.body, "upgrade-subscription")]
        r    == [held EXCEPT !.entered = TRUE]
    IN  IF mw # "pass" THEN Respond(held, mw, <<>>)
        ELSE IF opts.requireEmailVerification /\ ~Session.user.emailVerified
             THEN Respond(r, "EMAIL_VERIFICATION_REQUIRED", <<>>)
        ELSE IF ~HasPlan(plan) THEN Respond(r, "SUBSCRIPTION_PLAN_NOT_FOUND", <<>>)
        ELSE IF ref = None THEN Respond(r, "ORGANIZATION_REFERENCE_ID_REQUIRED", <<>>)
        ELSE IF Session.user.razorpayCustomerId = None
             THEN Respond(r, "CUSTOMER_NOT_FOUND", <<>>)
        ELSE [Step(r, "u_find", <<>>) EXCEPT !.referenceId = ref]

\* subscriptions the upgrade endpoint created on the provider's side
ApiSubs == DOMAIN razorpaySubs \ DOMAIN ExternalSubs

UpgradeReceive(env) ==
    /\ CanAccept(env)
    /\ Room(env)
    /\ Cardinality(ApiSubs) + Cardinality({s \in Busy : reqs[s].kind = "upgrade"}) < env.remote
    /\ \E body \in env.upgrades :
         reqs' = [reqs EXCEPT ![FreeSlot(env.limit)] = UpgradeBegin(options, UpgradeRequest(body))]
    /\ now' = now + 1
    /\ UNCHANGED <<options, subscription, nextId, razorpaySubs, delivered, unsynced>>

\* whether a row is one findMany returns for the reference (and the plan's group)
SameReferenceAndGroup(row, referenceId, plan) ==
    /\ row.referenceId = referenceId
    /\ plan.group # None => row.groupId = plan.group

\* existingSubs.find(s => isActive(s) || s.status === "authenticated") targets the plan
AlreadySubscribed(db, referenceId, plan) ==
    LET i == FirstIndex({j \in 1..Len(db) :
                             /\ SameReferenceAndGroup(db[j], referenceId, plan)
                             /\ (IsActive(db[j]) \/ db[j].status = "authenticated")})
    IN  i # 0 /\ db[i].plan = ToLowerCase(plan.name)

UpgradeFind(env) ==
    \E s \in Slots :
      /\ reqs[s].kind = "upgrade" /\ reqs[s].pc = "u_find"
      /\ \E fails \in env.faults :
           reqs' = [reqs EXCEPT ![s] =
              IF fails THEN Respond(@, "findMany threw", <<"findMany">>)
              ELSE IF AlreadySubscribed(subscription, @.referenceId, GetPlanByName(@.body.plan))
                   THEN Respond(@, "ALREADY_SUBSCRIBED_PLAN", <<"findMany">>)
              ELSE Step(@, "u_create", <<"findMany">>)]
      /\ UNCHANGED <<options, subscription, nextId, razorpaySubs, now, delivered, unsynced>>

\* annual && plan.annualPlanId ? plan.annualPlanId : plan.planId
UpgradePlanId(body, plan) ==
    IF body.annual /\ plan.annualPlanId # None THEN plan.annualPlanId ELSE plan.planId

\* a created record whose plan name is stored as configured, not lower-cased
UpgradeCreateData_PlanNameAsIs(body, plan, referenceId) ==
    [plan |-> plan.name,
     referenceId |-> referenceId,
     razorpayCustomerId |-> Session.user.razorpayCustomerId,
     razorpayPlanId |-> UpgradePlanId(body, plan),
     status |-> "created",
     quantity |-> IF plan.quantity # 0 THEN plan.quantity ELSE 1,
     totalCount |-> plan.totalCount,
     groupId |-> plan.group]

\* the record upgrade creates before it calls the provider
UpgradeCreateData(body, plan, referenceId) ==
    [plan |-> ToLowerCase(plan.name),
     referenceId |-> referenceId,
     razorpayCustomerId |-> Session.user.razorpayCustomerId,
     razorpayPlanId |-> UpgradePlanId(body, plan),
     status |-> "created",
     quantity |-> IF plan.quantity # 0 THEN plan.quantity ELSE 1,
     totalCount |-> plan.totalCount,
     groupId |-> plan.group]

UpgradeCreate(env) ==
    \E s \in Slots :
      /\ reqs[s].kind = "upgrade" /\ reqs[s].pc = "u_create"
      /\ \E fails \in env.faults :
           IF fails
           THEN /\ reqs' = [reqs EXCEPT ![s] = Respond(@, "create threw", <<"create">>)]
                /\ UNCHANGED <<subscription, nextId>>
           ELSE /\ subscription' = AdapterCreate(subscription, nextId,
                      UpgradeCreateData(reqs[s].body, GetPlanByName(reqs[s].body.plan),
                                        reqs[s].referenceId))
                /\ nextId' = nextId + 1
                /\ reqs' = [reqs EXCEPT ![s] = [Step(@, "u_remote", <<"create">>)
                                                  EXCEPT !.rowId = nextId]]
      /\ UNCHANGED <<options, razorpaySubs, now, delivered, unsynced>>

\* what the provider stores for the subscription upgrade creates: plan, customer and
\* the notes subscriptionNotes.set stamps
RemoteCreateParams(r) ==
    [plan_id |-> UpgradePlanId(r.body, GetPlanByName(r.body.plan)),
     customer_id |-> Session.user.razorpayCustomerId,
     notes |-> [userId |-> Session.user.id, subscriptionId |-> r.rowId,
                referenceId |-> r.referenceId]]

\* notes a getSubscriptionCreateParams may return: the host's own keys, none of the
\* internal ones (an absent userId or referenceId reads as None, an absent
\* subscriptionId as 0)
CustomNotes == [userId |-> None, subscriptionId |-> 0, referenceId |-> None]

\* what getSubscriptionCreateParams may return: nothing, or parameters with notes
CreateParamsExtras(env) ==
    IF "extras" \in DOMAIN env THEN env.extras ELSE {<<>>}

\* Object.assign(subscriptionCreateParams, extra): a key of extra replaces the
\* parameter of that name
SubscriptionCreateParams(opts, r, extra) ==
    IF opts.getSubscriptionCreateParams
    THEN extra @@ RemoteCreateParams(r)
    ELSE RemoteCreateParams(r)

NewRemoteId == "sub_" \o ToString(Cardinality(ApiSubs) + 1)

\* getSubscriptionCreateParams (outside the try), then client.subscriptions.create
UpgradeRemote(env) ==
    \E s \in Slots :
      /\ reqs[s].kind = "upgrade" /\ reqs[s].pc = "u_remote"
      /\ \E outcome \in {"ok"} \cup (IF TRUE \in env.faults
                                     THEN {"params threw", "remote failed"} ELSE {}) :
           CASE outcome = "params threw" ->
                  /\ options.getSubscriptionCreateParams
                  /\ reqs' = [reqs EXCEPT ![s] =
                                Respond(@, "getSubscriptionCreateParams threw", <<"params">>)]
                  /\ UNCHANGED razorpaySubs
             [] outcome = "remote failed" ->
                  /\ reqs' = [reqs EXCEPT ![s] = Step(@, "u_rollback", <<"remote.create">>)]
                  /\ UNCHANGED razorpaySubs
             [] OTHER ->
                  \E extra \in CreateParamsExtras(env) :
                    /\ razorpaySubs' =
                         (NewRemoteId :> SubscriptionCreateParams(options, reqs[s], extra))
                           @@ razorpaySubs
                    /\ reqs' = [reqs EXCEPT ![s] = [Step(@, "u_update", <<"remote.create">>)
                                                      EXCEPT !.remoteId = NewRemoteId]]
      /\ UNCHANGED <<options, subscription, nextId, now, delivered, unsynced>>

\* the update that stores the provider's subscription id on the local record
UpgradeUpdateData(remoteId) ==
    [razorpaySubscriptionId |-> remoteId, shortUrl |-> "https://rzp.io/abc"]

UpgradeUpdate(env) ==
    \E s \in Slots :
      /\ reqs[s].kind = "upgrade" /\ reqs[s].pc = "u_update"
      /\ \E fails \in env.faults :
           IF fails
           THEN /\ reqs' = [reqs EXCEPT ![s] = Step(@, "u_rollback", <<"update threw">>)]
                /\ unsynced' = [unsynced EXCEPT ![reqs[s].remoteId] =
                                                UpgradeUpdateData(reqs[s].remoteId)]
                /\ UNCHANGED subscription
           ELSE /\ subscription' = AdapterUpdate(subscription, reqs[s].rowId,
                                                 UpgradeUpdateData(reqs[s].remoteId))
                /\ reqs' = [reqs EXCEPT ![s] = Respond(@, "ok", <<"update">>)]
                /\ UNCHANGED unsynced
      /\ UNCHANGED <<options, nextId, razorpaySubs, now, delivered>>

\* the catch block: delete the local record, log, answer with the failure
UpgradeRollback(env) ==
    \E s \in Slots :
      /\ reqs[s].kind = "upgrade" /\ reqs[s].pc = "u_rollback"
      /\ \E fails \in env.faults :
           IF fails
           THEN /\ reqs' = [reqs EXCEPT ![s] = Respond(@, "delete threw", <<"delete">>)]
                /\ UNCHANGED subscription
           ELSE /\ subscription' = AdapterDelete(subscription, reqs[s].rowId)
                /\ reqs' = [reqs EXCEPT ![s] =
                              Respond(@, "SUBSCRIPTION_UPDATE_FAILED", <<"delete", "logger.error">>)]
      /\ UNCHANGED <<options, nextId, razorpaySubs, now, delivered, unsynced>>

(***************************************************************************)
(* routes.ts: cancelSubscription, pauseSubscription, resumeSubscription,   *)
(* updateSubscription and listSubscriptions.                               *)
(***************************************************************************)
ActionKinds == {"cancel", "pause", "resume", "update", "list"}

\* the action name the endpoint hands to referenceMiddleware
ActionName(kind) == kind \o "-subscription"

ActionRequest(kind, body) ==
    [kind |-> kind, pc |-> "received", body |-> body, referenceId |-> None,
     rowId |-> 0, remoteId |-> None, authorized |-> NoCall, entered |-> FALSE,
     trace |-> <<>>, response |-> NoResponse]

\* the middleware, then the endpoint's own resolution of the reference
ActionBegin(opts, req) ==
    LET mw   == ReferenceMiddleware(opts, req.body)
        ref  == ActionReference(req.body)
        held == [req EXCEPT !.authorized = AuthorizeCall(opts, req.body, ActionName(req.kind))]
        r    == [held EXCEPT !.entered = TRUE]
    IN  IF mw # "pass" THEN Respond(held, mw, <<>>)
        ELSE IF ref = None THEN Respond(r, "ORGANIZATION_REFERENCE_ID_REQUIRED", <<>>)
        ELSE [Step(r, "a_find", <<>>) EXCEPT !.referenceId = ref]

\* the bodies (for list: the query) an endpoint accepts from the given callers; an
\* absent planId is None, an absent quantity is 0
ActionBodies(kind, callers) ==
    {[referenceId |-> c.referenceId, customerType |-> c.customerType,
      cancelAtCycleEnd |-> atEnd, planId |-> change.planId, quantity |-> change.quantity] :
       c \in callers,
       atEnd \in IF kind = "cancel" THEN BOOLEAN ELSE {FALSE},
       change \in IF kind = "update"
                  THEN {[planId |-> "plan_T", quantity |-> 0],
                        [planId |-> None, quantity |-> 2]}
                  ELSE {[planId |-> None, quantity |-> 0]}}

ActionReceive(env) ==
    /\ CanAccept(env)
    /\ \E kind \in env.kinds :
       \E body \in ActionBodies(kind, env.callers) :
         reqs' = [reqs EXCEPT ![FreeSlot(env.limit)] =
                    ActionBegin(options, ActionRequest(kind, body))]
    /\ now' = now + 1
    /\ UNCHANGED <<options, subscription, nextId, razorpaySubs, delivered, unsynced>>

\* adapter.findOne where referenceId = referenceId: index of the row, 0 when none
FindOneByReference(db, referenceId) ==
    FirstIndex({i \in 1..Len(db) : db[i].referenceId = referenceId})

\* checks that let pause and resume through whatever the status of the row
ActionCheck_StatusUnchecked(kind, db, i) ==
    IF i = 0 \/ db[i].razorpaySubscriptionId = None THEN "SUBSCRIPTION_NOT_FOUND"
    ELSE IF kind = "cancel" /\ (IsCancelled(db[i]) \/ IsTerminal(db[i]))
         THEN "SUBSCRIPTION_ALREADY_CANCELLED"
    ELSE "pass"

\* the checks between findOne and the try block: "pass", or the error code thrown
ActionCheck(kind, db, i) ==
    IF i = 0 \/ db[i].razorpaySubscriptionId = None THEN "SUBSCRIPTION_NOT_FOUND"
    ELSE CASE kind = "cancel" ->
                IF IsCancelled(db[i]) \/ IsTerminal(db[i])
                THEN "SUBSCRIPTION_ALREADY_CANCELLED" ELSE "pass"
           [] kind = "pause" ->
                IF ~IsActive(db[i]) THEN "SUBSCRIPTION_NOT_ACTIVE"
                ELSE IF IsPaused(db[i]) THEN "SUBSCRIPTION_ALREADY_PAUSED" ELSE "pass"
           [] kind = "resume" ->
                IF ~IsPaused(db[i]) THEN "SUBSCRIPTION_NOT_PAUSED" ELSE "pass"
           [] OTHER -> "pass"

\* the endpoint after its lookup: list answers, the others check the row found
ActionFound(r, db) ==
    LET i    == FindOneByReference(db, r.referenceId)
        code == ActionCheck(r.kind, db, i)
    IN  IF r.kind = "list" THEN Respond(r, "ok", <<"findMany">>)
        ELSE IF code # "pass" THEN Respond(r, code, <<"findOne">>)
        ELSE [Step(r, "a_remote", <<"findOne">>)
                EXCEPT !.rowId = db[i].id, !.remoteId = db[i].razorpaySubscriptionId]

ActionFind(env) ==
    \E s \in Slots :
      /\ reqs[s].kind \in ActionKinds /\ reqs[s].pc = "a_find"
      /\ \E fails \in env.faults :
           reqs' = [reqs EXCEPT ![s] =
              IF fails THEN Respond(@, "find threw", <<"find">>)
              ELSE ActionFound(@, subscription)]
      /\ UNCHANGED <<options, subscription, nextId, razorpaySubs, now, delivered, unsynced>>

\* catch blocks that all throw the same error
ActionFailed_OneError(kind) == "SUBSCRIPTION_UPDATE_FAILED"

\* the error of the endpoint's catch block
ActionFailed(kind) ==
    CASE kind = "cancel" -> "SUBSCRIPTION_CANCEL_FAILED"
      [] kind = "pause"  -> "SUBSCRIPTION_PAUSE_FAILED"
      [] kind = "resume" -> "SUBSCRIPTION_RESUME_FAILED"
      [] OTHER           -> "SUBSCRIPTION_UPDATE_FAILED"

\* what the provider holds after the call: update with a planId changes the plan
RemoteAfter(remote, r) ==
    IF r.kind = "update" /\ r.body.planId # None
    THEN [remote EXCEPT ![r.remoteId].plan_id = r.body.planId]
    ELSE remote

\* client.subscriptions.cancel / pause / resume / update inside the try block
ActionRemote(env) ==
    \E s \in Slots :
      /\ reqs[s].kind \in ActionKinds /\ reqs[s].pc = "a_remote"
      /\ \E fails \in env.faults :
           IF fails
           THEN /\ reqs' = [reqs EXCEPT ![s] =
                      Respond(@, ActionFailed(@.kind),
                              <<"remote." \o @.kind, "logger.error">>)]
                /\ UNCHANGED razorpaySubs
           ELSE /\ razorpaySubs' = RemoteAfter(razorpaySubs, reqs[s])
                /\ reqs' = [reqs EXCEPT ![s] = Step(@, "a_update", <<"remote." \o @.kind>>)]
      /\ UNCHANGED <<options, subscription, nextId, now, delivered, unsynced>>

\* the fields updateSubscription writes: razorpayPlanId and quantity, when given
UpdateFields(body) ==
    (IF body.planId # None THEN [razorpayPlanId |-> body.planId] ELSE <<>>)
    @@ (IF body.quantity # 0 THEN [quantity |-> body.quantity] ELSE <<>>)

\* a resume that leaves pausedAt as the pause had set it
ActionUpdateData_ResumeKeepsPausedAt(kind, body, at) ==
    CASE kind = "cancel" ->
           IF body.cancelAtCycleEnd THEN [cancelAtCycleEnd |-> TRUE]
           ELSE [status |-> "cancelled", cancelledAt |-> at, endedAt |-> at]
      [] kind = "pause"  -> [status |-> "paused", pausedAt |-> at]
      [] kind = "resume" -> [status |-> "active"]
      [] OTHER           -> UpdateFields(body)

\* an endpoint that cancels the local record at once, whatever cancelAtCycleEnd says
ActionUpdateData_CancelsAtOnce(kind, body, at) ==
    CASE kind = "cancel" -> [status |-> "cancelled", cancelledAt |-> at, endedAt |-> at]
      [] kind = "pause"  -> [status |-> "paused", pausedAt |-> at]
      [] kind = "resume" -> [status |-> "active", pausedAt |-> 0]
      [] OTHER           -> UpdateFields(body)

\* the update the endpoint writes to its row after the provider accepted the call
ActionUpdateData(kind, body, at) ==
    CASE kind = "cancel" ->
           IF body.cancelAtCycleEnd THEN [cancelAtCycleEnd |-> TRUE]
           ELSE [status |-> "cancelled", cancelledAt |-> at, endedAt |-> at]
      [] kind = "pause"  -> [status |-> "paused", pausedAt |-> at]
      [] kind = "resume" -> [status |-> "active", pausedAt |-> 0]
      [] OTHER           -> UpdateFields(body)

\* the mark a completed call leaves: which call it was, and what it came after
ApiCall(r, last) ==
    [event |-> IF r.kind = "cancel" /\ r.body.cancelAtCycleEnd
               THEN "api.cancelAtCycleEnd" ELSE "api." \o r.kind,
     after |-> last.event]

ActionUpdate(env) ==
    \E s \in Slots :
      /\ reqs[s].kind \in ActionKinds /\ reqs[s].pc = "a_update"
      /\ \E fails \in env.faults :
           IF fails
           THEN /\ reqs' = [reqs EXCEPT ![s] =
                      Respond(@, ActionFailed(@.kind), <<"update threw", "logger.error">>)]
                /\ unsynced' = [unsynced EXCEPT ![reqs[s].remoteId] =
                                  ActionUpdateData(reqs[s].kind, reqs[s].body, now)]
                /\ UNCHANGED <<subscription, delivered>>
           ELSE /\ subscription' = AdapterUpdate(subscription, reqs[s].rowId,
                                     ActionUpdateData(reqs[s].kind, reqs[s].body, now))
                /\ reqs' = [reqs EXCEPT ![s] = Respond(@, "ok", <<"update">>)]
                /\ unsynced' = [unsynced EXCEPT ![reqs[s].remoteId] = NoWrite]
                /\ delivered' = [delivered EXCEPT ![reqs[s].remoteId] =
                                   ApiCall(reqs[s], delivered[reqs[s].remoteId])]
      /\ UNCHANGED <<options, nextId, razorpaySubs, now>>

(***************************************************************************)
(* The machine.                                                            *)
(***************************************************************************)
\* the configurations explored: the webhook secret (or none) and onEvent (or none)
Configs ==
    {[razorpayWebhookSecret |-> secret, onEvent |-> onEvent, callbacks |-> TRUE,
      subscriptionEnabled |-> TRUE, organizationEnabled |-> FALSE,
      authorizeReference |-> "absent", requireEmailVerification |-> FALSE,
      getSubscriptionCreateParams |-> TRUE] :
       secret \in {None, "whsec", "other_secret"}, onEvent \in BOOLEAN}

Init ==
    /\ options \in Configs
    /\ subscription = <<>>
    /\ nextId = 1
    /\ razorpaySubs = ExternalSubs
    /\ now = 0
    /\ reqs = [s \in Slots |-> Idle]
    /\ delivered = [s \in SubscriptionIds |-> NoEvent]
    /\ unsynced = [s \in SubscriptionIds |-> NoWrite]

\* upgrade requests: for the caller, or with an explicit reference to another user
UpgradeBodies ==
    {[plan |-> "pro", referenceId |-> ref, customerType |-> None, annual |-> FALSE] :
       ref \in {None, "u2"}}

\* one request at a time, every input and every failure
SeqEnv == [limit |-> 1, clock |-> MaxTime, rows |-> MaxRows, remote |-> MaxRemote,
           types |-> EventTypes, otherBodies |-> {MalformedBody},
           keys |-> {"whsec", "other_secret"}, tamper |-> TRUE, faults |-> BOOLEAN,
           formats |-> Formats, consumed |-> BOOLEAN, upgrades |-> UpgradeBodies]

\* concurrent requests: correctly signed events of the creating handlers, and upgrades
ConcEnv == [limit |-> MaxInflight, clock |-> MaxTime, rows |-> MaxRows,
            remote |-> MaxRemote,
            types |-> CreatingEvents, otherBodies |-> {},
            keys |-> {options.razorpayWebhookSecret}, tamper |-> FALSE, faults |-> BOOLEAN,
            formats |-> {"compact"}, consumed |-> {FALSE}, upgrades |-> UpgradeBodies]

Next ==
    \/ WebhookReceive(SeqEnv)
    \/ WebhookFind(SeqEnv)
    \/ WebhookWrite(SeqEnv)
    \/ WebhookCallback(SeqEnv)
    \/ UpgradeReceive(SeqEnv)
    \/ UpgradeFind(SeqEnv)
    \/ UpgradeCreate(SeqEnv)
    \/ UpgradeRemote(SeqEnv)
    \/ UpgradeUpdate(SeqEnv)
    \/ UpgradeRollback(SeqEnv)
    \/ Release

Spec == Init /\ [][Next]_vars

ConcNext ==
    \/ WebhookReceive(ConcEnv)
    \/ WebhookFind(ConcEnv)
    \/ WebhookWrite(ConcEnv)
    \/ WebhookCallback(ConcEnv)
    \/ UpgradeReceive(ConcEnv)
    \/ UpgradeFind(ConcEnv)
    \/ UpgradeCreate(ConcEnv)
    \/ UpgradeRemote(ConcEnv)
    \/ UpgradeUpdate(ConcEnv)
    \/ UpgradeRollback(ConcEnv)
    \/ Release

ConcSpec == Init /\ [][ConcNext]_vars

\* the configurations of the action endpoints: the hook authorizeReference is absent,
\* or answers allow, or answers deny
ActionConfigs ==
    {[razorpayWebhookSecret |-> "whsec", onEvent |-> FALSE, callbacks |-> TRUE,
      subscriptionEnabled |-> TRUE, organizationEnabled |-> TRUE,
      authorizeReference |-> hook, requireEmailVerification |-> FALSE,
      getSubscriptionCreateParams |-> TRUE] :
       hook \in {"absent", "allow", "deny"}}

ActionInit ==
    /\ options \in ActionConfigs
    /\ subscription = <<>>
    /\ nextId = 1
    /\ razorpaySubs = ExternalSubs
    /\ now = 0
    /\ reqs = [s \in Slots |-> Idle]
    /\ delivered = [s \in SubscriptionIds |-> NoEvent]
    /\ unsynced = [s \in SubscriptionIds |-> NoWrite]

\* a call for the caller's own reference
Self == [referenceId |-> None, customerType |-> None]

\* who an action is called for: the caller, another user, an organization
Callers ==
    {Self,
     [referenceId |-> "u2", customerType |-> None],
     [referenceId |-> "org1", customerType |-> "organization"]}

\* upgrade requests of the given callers for the given plans
UpgradesOf(plans, callers) ==
    {[plan |-> plan, referenceId |-> c.referenceId, customerType |-> c.customerType,
      annual |-> FALSE] : plan \in plans, c \in callers}

\* one request at a time, from every caller: the action endpoints, upgrades, and
\* correctly signed activations
ActionEnv == [limit |-> 1, clock |-> MaxTime, rows |-> MaxRows, remote |-> MaxRemote,
              types |-> {"subscription.activated"}, otherBodies |-> {},
              keys |-> {"whsec"}, tamper |-> FALSE, faults |-> BOOLEAN,
              formats |-> {"compact"}, consumed |-> {FALSE},
              upgrades |-> UpgradesOf({"pro"}, Callers), callers |-> Callers,
              kinds |-> ActionKinds]

ActionNext ==
    \/ WebhookReceive(ActionEnv)
    \/ WebhookFind(ActionEnv)
    \/ WebhookWrite(ActionEnv)
    \/ WebhookCallback(ActionEnv)
    \/ UpgradeReceive(ActionEnv)
    \/ UpgradeFind(ActionEnv)
    \/ UpgradeCreate(ActionEnv)
    \/ UpgradeRemote(ActionEnv)
    \/ UpgradeUpdate(ActionEnv)
    \/ UpgradeRollback(ActionEnv)
    \/ ActionReceive(ActionEnv)
    \/ ActionFind(ActionEnv)
    \/ ActionRemote(ActionEnv)
    \/ ActionUpdate(ActionEnv)
    \/ Release

ActionSpec == ActionInit /\ [][ActionNext]_vars

\* the caller's own subscriptions, without a hook
OwnConfig ==
    [razorpayWebhookSecret |-> "whsec", onEvent |-> FALSE, callbacks |-> TRUE,
     subscriptionEnabled |-> TRUE, organizationEnabled |-> FALSE,
     authorizeReference |-> "absent", requireEmailVerification |-> FALSE,
     getSubscriptionCreateParams |-> TRUE]

OwnInit ==
    /\ options = OwnConfig
    /\ subscription = <<>>
    /\ nextId = 1
    /\ razorpaySubs = ExternalSubs
    /\ now = 0
    /\ reqs = [s \in Slots |-> Idle]
    /\ delivered = [s \in SubscriptionIds |-> NoEvent]
    /\ unsynced = [s \in SubscriptionIds |-> NoWrite]

OwnEvents == {"subscription.authenticated", "subscription.activated",
              "subscription.updated", "subscription.cancelled"}

\* one request at a time, for the caller's own reference: upgrades to every plan, the
\* action endpoints, and correctly signed events
OwnEnv == [limit |-> 1, clock |-> MaxTime + 1, rows |-> MaxRows + 1,
           remote |-> MaxRemote + 1,
           types |-> OwnEvents, otherBodies |-> {},
           keys |-> {"whsec"}, tamper |-> FALSE, faults |-> BOOLEAN,
           formats |-> {"compact"}, consumed |-> {FALSE},
           upgrades |-> UpgradesOf({"pro", "basic", "team"}, {Self}),
           callers |-> {Self}, kinds |-> ActionKinds]

OwnNext ==
    \/ WebhookReceive(OwnEnv)
    \/ WebhookFind(OwnEnv)
    \/ WebhookWrite(OwnEnv)
    \/ WebhookCallback(OwnEnv)
    \/ UpgradeReceive(OwnEnv)
    \/ UpgradeFind(OwnEnv)
    \/ UpgradeCreate(OwnEnv)
    \/ UpgradeRemote(OwnEnv)
    \/ UpgradeUpdate(OwnEnv)
    \/ UpgradeRollback(OwnEnv)
    \/ ActionReceive(OwnEnv)
    \/ ActionFind(OwnEnv)
    \/ ActionRemote(OwnEnv)
    \/ ActionUpdate(OwnEnv)
    \/ Release

OwnSpec == OwnInit /\ [][OwnNext]_vars

\* organization billing enabled or not
LinkConfigs ==
    {[razorpayWebhookSecret |-> "whsec", onEvent |-> FALSE, callbacks |-> TRUE,
      subscriptionEnabled |-> TRUE, organizationEnabled |-> enabled,
      authorizeReference |-> "absent", requireEmailVerification |-> FALSE,
      getSubscriptionCreateParams |-> TRUE] : enabled \in BOOLEAN}

LinkInit ==
    /\ options \in LinkConfigs
    /\ subscription = <<>>
    /\ nextId = 1
    /\ razorpaySubs = LinkedSubs
    /\ now = 0
    /\ reqs = [s \in Slots |-> Idle]
    /\ delivered = [s \in DOMAIN LinkedSubs |-> NoEvent]
    /\ unsynced = [s \in DOMAIN LinkedSubs |-> NoWrite]

\* correctly signed events of the creating handlers, one at a time
LinkEnv == [limit |-> 1, clock |-> MaxTime, rows |-> MaxRows, remote |-> MaxRemote,
            types |-> CreatingEvents, otherBodies |-> {},
            keys |-> {"whsec"}, tamper |-> FALSE, faults |-> BOOLEAN,
            formats |-> {"compact"}, consumed |-> {FALSE},
            upgrades |-> {}, callers |-> {}, kinds |-> {}]

LinkNext ==
    \/ WebhookReceive(LinkEnv)
    \/ WebhookFind(LinkEnv)
    \/ WebhookWrite(LinkEnv)
    \/ WebhookCallback(LinkEnv)
    \/ Release

LinkSpec == LinkInit /\ [][LinkNext]_vars

CycleEvents == {"subscription.activated", "subscription.paused",
                "subscription.resumed", "subscription.cancelled"}

\* the life of one subscription the provider already holds: its events, and the
\* caller's cancel, pause and resume calls, one request at a time
CycleEnv == [limit |-> 1, clock |-> MaxTime + 1, rows |-> MaxRows, remote |-> MaxRemote,
             types |-> CycleEvents, otherBodies |-> {},
             keys |-> {"whsec"}, tamper |-> FALSE, faults |-> BOOLEAN,
             formats |-> {"compact"}, consumed |-> {FALSE},
             upgrades |-> {}, callers |-> {Self},
             kinds |-> {"cancel", "pause", "resume"}]

CycleNext ==
    \/ WebhookReceive(CycleEnv)
    \/ WebhookFind(CycleEnv)
    \/ WebhookWrite(CycleEnv)
    \/ WebhookCallback(CycleEnv)
    \/ ActionReceive(CycleEnv)
    \/ ActionFind(CycleEnv)
    \/ ActionRemote(CycleEnv)
    \/ ActionUpdate(CycleEnv)
    \/ Release

CycleSpec == OwnInit /\ [][CycleNext]_vars

(***************************************************************************)
(* index.ts, init: the hooks registered with the organization plugin.      *)
(***************************************************************************)
\* the organizations the organization plugin reports to the hooks: one the host has
\* given a provider customer, and one without (the plugin itself never sets the field)
HookOrganizations ==
    {o \in OrganizationTable : o.id = "org1"}
      \cup {[id |-> "org3", razorpayCustomerId |-> None]}

\* adapter.count of the organization's members, as the hook may find it
MemberCounts == 1..MaxMembers

\* plans.filter(p => p.quantity), as the set of their lower-cased names
QuantityPlanNames ==
    {ToLowerCase(Plans[i].name) : i \in {j \in 1..Len(Plans) : Plans[j].quantity # 0}}

HookRequest(kind, org, count) ==
    [kind |-> kind, pc |-> "done", organization |-> org, memberCount |-> count,
     found |-> 0, trace |-> <<>>, response |-> NoResponse]

\* the hook returns to the organization plugin, or throws the error named
HookEnds(r, code, found, calls) ==
    [r EXCEPT !.response = [status |-> 0, code |-> code], !.found = found,
              !.trace = calls]

SeatFaults == {"count", "findOne", "remote.update", "update"}

\* the row seat sync goes on with: the first row of the organization, when it has a
\* provider subscription id, is active and is on a plan with a quantity; else 0
SeatRow(db, org) ==
    LET i == FindOneByReference(db, org.id)
    IN  IF i = 0 THEN 0
        ELSE IF db[i].razorpaySubscriptionId = None \/ ~IsActive(db[i])
                \/ db[i].plan \notin QuantityPlanNames THEN 0
        ELSE i

\* syncSeatsAfterMemberChange, registered as afterAddMember, afterRemoveMember and
\* afterAcceptInvitation; fault names the call that throws, if any
SyncSeatsAfterMemberChange(env) ==
    /\ CanAccept(env)
    /\ \E org \in env.organizations, count \in MemberCounts,
          fault \in {None} \cup (IF TRUE \in env.faults THEN SeatFaults ELSE {}) :
         LET r   == HookRequest("seats", org, count)
             i   == SeatRow(subscription, org)
             sid == subscription[i].razorpaySubscriptionId
         IN  IF ~options.subscriptionEnabled \/ org.razorpayCustomerId = None
             THEN /\ fault = None
                  /\ reqs' = [reqs EXCEPT ![FreeSlot(env.limit)] =
                                HookEnds(r, "returned", 0, <<>>)]
                  /\ UNCHANGED <<subscription, razorpaySubs>>
             ELSE IF fault = "count"
             THEN /\ reqs' = [reqs EXCEPT ![FreeSlot(env.limit)] =
                                HookEnds(r, "returned", 0, <<"count", "logger.error">>)]
                  /\ UNCHANGED <<subscription, razorpaySubs>>
             ELSE IF QuantityPlanNames = {}
             THEN /\ fault = None
                  /\ reqs' = [reqs EXCEPT ![FreeSlot(env.limit)] =
                                HookEnds(r, "returned", 0, <<"count">>)]
                  /\ UNCHANGED <<subscription, razorpaySubs>>
             ELSE IF fault = "findOne"
             THEN /\ reqs' = [reqs EXCEPT ![FreeSlot(env.limit)] =
                                HookEnds(r, "returned", 0,
                                         <<"count", "findOne", "logger.error">>)]
                  /\ UNCHANGED <<subscription, razorpaySubs>>
             ELSE IF i = 0
             THEN /\ fault = None
                  /\ reqs' = [reqs EXCEPT ![FreeSlot(env.limit)] =
                                HookEnds(r, "returned", 0, <<"count", "findOne">>)]
                  /\ UNCHANGED <<subscription, razorpaySubs>>
             ELSE IF fault = "remote.update"
             THEN /\ reqs' = [reqs EXCEPT ![FreeSlot(env.limit)] =
                                HookEnds(r, "returned", subscription[i].id,
                                         <<"count", "findOne", "remote.update",
                                           "logger.error">>)]
                  /\ UNCHANGED <<subscription, razorpaySubs>>
             ELSE IF fault = "update"
             THEN /\ razorpaySubs' = [razorpaySubs EXCEPT
                                        ![sid] = [quantity |-> count] @@ @]
                  /\ reqs' = [reqs EXCEPT ![FreeSlot(env.limit)] =
                                HookEnds(r, "returned", subscription[i].id,
                                         <<"count", "findOne", "remote.update", "update",
                                           "logger.error">>)]
                  /\ UNCHANGED subscription
             ELSE /\ razorpaySubs' = [razorpaySubs EXCEPT
                                        ![sid] = [quantity |-> count] @@ @]
                  /\ subscription' = AdapterUpdate(subscription, subscription[i].id,
                                                   [quantity |-> count])
                  /\ reqs' = [reqs EXCEPT ![FreeSlot(env.limit)] =
                                HookEnds(r, "returned", subscription[i].id,
                                         <<"count", "findOne", "remote.update",
                                           "update">>)]
    /\ now' = now + 1
    /\ UNCHANGED <<options, nextId, delivered, unsynced>>

\* whether findMany where razorpayCustomerId = the organization's returns an active row
HasActiveSubscription(db, org) ==
    \E i \in 1..Len(db) :
        db[i].razorpayCustomerId = org.razorpayCustomerId /\ IsActive(db[i])

\* beforeDeleteRazorpayOrg, registered as beforeDeleteOrganization
BeforeDeleteRazorpayOrg(env) ==
    /\ CanAccept(env)
    /\ \E org \in env.organizations, fails \in env.faults :
         LET r == HookRequest("delete", org, 0)
         IN  reqs' = [reqs EXCEPT ![FreeSlot(env.limit)] =
                IF org.razorpayCustomerId = None
                THEN HookEnds(r, "returned", 0, <<>>)
                ELSE IF fails
                THEN HookEnds(r, "findMany threw", 0, <<"findMany", "logger.error">>)
                ELSE IF HasActiveSubscription(subscription, org)
                THEN HookEnds(r, "ORGANIZATION_HAS_ACTIVE_SUBSCRIPTION", 0, <<"findMany">>)
                ELSE HookEnds(r, "returned", 0, <<"findMany">>)]
    /\ now' = now + 1
    /\ UNCHANGED <<options, subscription, nextId, razorpaySubs, delivered, unsynced>>

\* organization billing with a hook that authorizes every reference
OrgConfig ==
    [razorpayWebhookSecret |-> "whsec", onEvent |-> FALSE, callbacks |-> TRUE,
     subscriptionEnabled |-> TRUE, organizationEnabled |-> TRUE,
     authorizeReference |-> "allow", requireEmailVerification |-> FALSE,
     getSubscriptionCreateParams |-> TRUE]

OrgInit ==
    /\ options = OrgConfig
    /\ subscription = <<>>
    /\ nextId = 1
    /\ razorpaySubs = ExternalSubs
    /\ now = 0
    /\ reqs = [s \in Slots |-> Idle]
    /\ delivered = [s \in SubscriptionIds |-> NoEvent]
    /\ unsynced = [s \in SubscriptionIds |-> NoWrite]

\* the caller acts for an organization
OrgCallers ==
    {[referenceId |-> o.id, customerType |-> "organization"] : o \in HookOrganizations}

\* one request at a time: upgrades of organizations to the plan billed by seats,
\* correctly signed activations, and the notifications of the organization plugin
OrgEnv == [limit |-> 1, clock |-> MaxTime, rows |-> MaxRows, remote |-> MaxRemote,
           types |-> {"subscription.activated"}, otherBodies |-> {},
           keys |-> {"whsec"}, tamper |-> FALSE, faults |-> BOOLEAN,
           formats |-> {"compact"}, consumed |-> {FALSE},
           upgrades |-> UpgradesOf({"seats"}, OrgCallers), callers |-> OrgCallers,
           kinds |-> {}, organizations |-> HookOrganizations]

OrgNext ==
    \/ WebhookReceive(OrgEnv)
    \/ WebhookFind(OrgEnv)
    \/ WebhookWrite(OrgEnv)
    \/ WebhookCallback(OrgEnv)
    \/ UpgradeReceive(OrgEnv)
    \/ UpgradeFind(OrgEnv)
    \/ UpgradeCreate(OrgEnv)
    \/ UpgradeRemote(OrgEnv)
    \/ UpgradeUpdate(OrgEnv)
    \/ UpgradeRollback(OrgEnv)
    \/ SyncSeatsAfterMemberChange(OrgEnv)
    \/ BeforeDeleteRazorpayOrg(OrgEnv)
    \/ Release

OrgSpec == OrgInit /\ [][OrgNext]_vars

\* concurrent requests: upgrades of organizations and correctly signed activations
RaceEnv == [OrgEnv EXCEPT !.limit = MaxInflight, !.rows = MaxRows + 1]

RaceNext ==
    \/ WebhookReceive(RaceEnv)
    \/ WebhookFind(RaceEnv)
    \/ WebhookWrite(RaceEnv)
    \/ WebhookCallback(RaceEnv)
    \/ UpgradeReceive(RaceEnv)
    \/ UpgradeFind(RaceEnv)
    \/ UpgradeCreate(RaceEnv)
    \/ UpgradeRemote(RaceEnv)
    \/ UpgradeUpdate(RaceEnv)
    \/ UpgradeRollback(RaceEnv)
    \/ Release

RaceSpec == OrgInit /\ [][RaceNext]_vars

\* subscriptions enabled or not
GuardConfigs ==
    {[razorpayWebhookSecret |-> "whsec", onEvent |-> FALSE, callbacks |-> TRUE,
      subscriptionEnabled |-> enabled, organizationEnabled |-> FALSE,
      authorizeReference |-> "absent", requireEmailVerification |-> FALSE,
      getSubscriptionCreateParams |-> TRUE] : enabled \in BOOLEAN}

GuardInit ==
    /\ options \in GuardConfigs
    /\ subscription = <<>>
    /\ nextId = 1
    /\ razorpaySubs = ExternalSubs
    /\ now = 0
    /\ reqs = [s \in Slots |-> Idle]
    /\ delivered = [s \in SubscriptionIds |-> NoEvent]
    /\ unsynced = [s \in SubscriptionIds |-> NoWrite]

\* correctly signed events of every handled type, with and without a subscription
\* entity, one at a time
GuardEnv == [limit |-> 1, clock |-> MaxTime, rows |-> MaxRows, remote |-> MaxRemote,
             types |-> HandledEvents,
             otherBodies |-> {NoEntityEvent(t) : t \in HandledEvents},
             keys |-> {"whsec"}, tamper |-> FALSE, faults |-> BOOLEAN,
             formats |-> {"compact"}, consumed |-> {FALSE},
             upgrades |-> {}, callers |-> {}, kinds |-> {}]

GuardNext ==
    \/ WebhookReceive(GuardEnv)
    \/ WebhookFind(GuardEnv)
    \/ WebhookWrite(GuardEnv)
    \/ WebhookCallback(GuardEnv)
    \/ Release

GuardSpec == GuardInit /\ [][GuardNext]_vars

\* dashboard subscriptions of the caller's customer: one on a configured plan, one on
\* a plan the configuration does not (or no longer does) list
DashboardSubs ==
    [s \in {"sub_ext", "sub_old"} |->
       [plan_id |-> IF s = "sub_ext" THEN "plan_X" ELSE "plan_old",
        customer_id |-> "cust_u1", notes |-> [referenceId |-> None]]]

DashboardInit ==
    /\ options = OwnConfig
    /\ subscription = <<>>
    /\ nextId = 1
    /\ razorpaySubs = DashboardSubs
    /\ now = 0
    /\ reqs = [s \in Slots |-> Idle]
    /\ delivered = [s \in DOMAIN DashboardSubs |-> NoEvent]
    /\ unsynced = [s \in DOMAIN DashboardSubs |-> NoWrite]

\* correctly signed events of the creating handlers, one at a time
DashboardEnv == [limit |-> 1, clock |-> MaxTime, rows |-> MaxRows, remote |-> MaxRemote,
                 types |-> CreatingEvents, otherBodies |-> {},
                 keys |-> {"whsec"}, tamper |-> FALSE, faults |-> BOOLEAN,
                 formats |-> {"compact"}, consumed |-> {FALSE},
                 upgrades |-> {}, callers |-> {}, kinds |-> {}]

DashboardNext ==
    \/ WebhookReceive(DashboardEnv)
    \/ WebhookFind(DashboardEnv)
    \/ WebhookWrite(DashboardEnv)
    \/ WebhookCallback(DashboardEnv)
    \/ Release

DashboardSpec == DashboardInit /\ [][DashboardNext]_vars

\* one request at a time: upgrades of the caller to every plan, with a
\* getSubscriptionCreateParams that returns nothing or notes of its own, and
\* correctly signed activations
ParamsEnv == [limit |-> 1, clock |-> MaxTime, rows |-> MaxRows, remote |-> MaxRemote,
              types |-> {"subscription.activated"}, otherBodies |-> {},
              keys |-> {"whsec"}, tamper |-> FALSE, faults |-> BOOLEAN,
              formats |-> {"compact"}, consumed |-> {FALSE},
              upgrades |-> UpgradesOf({"pro", "basic", "team"}, {Self}),
              callers |-> {Self}, kinds |-> {},
              extras |-> {<<>>, [notes |-> CustomNotes]}]

ParamsNext ==
    \/ WebhookReceive(ParamsEnv)
    \/ WebhookFind(ParamsEnv)
    \/ WebhookWrite(ParamsEnv)
    \/ WebhookCallback(ParamsEnv)
    \/ UpgradeReceive(ParamsEnv)
    \/ UpgradeFind(ParamsEnv)
    \/ UpgradeCreate(ParamsEnv)
    \/ UpgradeRemote(ParamsEnv)
    \/ UpgradeUpdate(ParamsEnv)
    \/ UpgradeRollback(ParamsEnv)
    \/ Release

ParamsSpec == OwnInit /\ [][ParamsNext]_vars

(***************************************************************************)
(* Properties.                                                             *)
(***************************************************************************)
Webhooks == {s \in Slots : reqs[s].kind = "webhook"}

DoneWebhooks == {s \in Webhooks : reqs[s].pc = "done"}

Contains(seq, x) == \E i \in 1..Len(seq) : seq[i] = x

\* indexes of the rows that carry the provider subscription id sid
RowsOf(db, sid) == {i \in 1..Len(db) : db[i].razorpaySubscriptionId = sid}

\* the request in slot s is a webhook whose handler completes its write in this step
Writes(s) ==
    /\ reqs[s].kind = "webhook" /\ reqs[s].pc = "write"
    /\ reqs'[s].pc = "callback"

\* C1: at most one local subscription row carries any given razorpaySubscriptionId,
\* under every interleaving of webhook deliveries and upgrade calls.
C1_UniqueRazorpaySubscriptionId ==
    \A i, j \in 1..Len(subscription) :
        (i # j /\ subscription[i].razorpaySubscriptionId # None)
        => subscription[i].razorpaySubscriptionId # subscription[j].razorpaySubscriptionId

\* C2: served one after the other, an activated event that matches no row and whose
\* customer resolves creates exactly one row for its provider subscription id, and a
\* later activated event for that id finds the row and adds none.
C2_OrphanActivatedCreatesOneRow ==
    [][\A s \in Slots :
         (Writes(s) /\ reqs[s].body.event = "subscription.activated")
         => LET sid == reqs[s].body.sid
            IN  IF RowsOf(subscription, sid) = {}
                THEN /\ Cardinality(RowsOf(subscription', sid)) = 1
                     /\ Len(subscription') = Len(subscription) + 1
                     /\ subscription'[Len(subscription')].referenceId
                          = ResolveReference(options, Entity(reqs[s].body, razorpaySubs))
                ELSE /\ reqs[s].found # 0
                     /\ Len(subscription') = Len(subscription)
                     /\ Cardinality(RowsOf(subscription', sid)) = 1]_vars

\* C2 witness: the second request ever served is the redelivery of the activated
\* event that created row 1, and it updated that row.
C2_Witness ==
    \E s \in DoneWebhooks :
        /\ now = 2 /\ reqs[s].replay
        /\ reqs[s].body.event = "subscription.activated"
        /\ reqs[s].found = 1 /\ Contains(reqs[s].trace, "update")
        /\ Len(subscription) = 1

\* onSubscriptionActivated run to completion on table db without failure
Reconcile(db, id, ev, at) ==
    LET r == HandlerFind(options, db,
                         Step(WebhookRequest(ev, NoSignature), "find", <<>>), razorpaySubs)
    IN  IF r.pc # "write" THEN [db |-> db, id |-> id]
        ELSE [db |-> HandlerWrite(db, id, r, razorpaySubs, at),
              id |-> IF r.found # 0 THEN id ELSE id + 1]

\* C3: for every reachable table s and activated event e,
\* reconcile(reconcile(s, e), e) = reconcile(s, e).
C3_ActivatedIdempotent ==
    \A ev \in WebhookEvents({"subscription.activated"}, razorpaySubs) :
        LET once  == Reconcile(subscription, nextId, ev, now)
            twice == Reconcile(once.db, once.id, ev, now + 1)
        IN  twice.db = once.db

\* C3 witness: an activated event has been applied twice in a row to a row that an
\* upgrade created, and the table is the fixpoint of reconciling it.
C3_Witness ==
    \E s \in DoneWebhooks :
        /\ reqs[s].replay /\ reqs[s].body.event = "subscription.activated"
        /\ reqs[s].body.sid \in ApiSubs
        /\ RowById(subscription, reqs[s].found).status = "active"
        /\ Reconcile(subscription, nextId, reqs[s].body, now).db = subscription

\* C4: a handler that applies an event identical to the one last applied to the
\* record leaves cancelledAt, endedAt and pausedAt as the first delivery set them.
C4_ReplayKeepsLifecycleTimestamps ==
    [][\A s \in Slots :
         (Writes(s) /\ reqs[s].found # 0 /\ delivered[reqs[s].body.sid] = reqs[s].body)
         => LET old == RowById(subscription, reqs[s].found)
                new == RowById(subscription', reqs[s].found)
            IN  /\ new.cancelledAt = old.cancelledAt
                /\ new.endedAt = old.endedAt
                /\ new.pausedAt = old.pausedAt]_vars

\* C5: the handler of a redelivered event (identical to the one last applied to
\* the record) does not invoke the lifecycle callback again.
C5_CallbackOncePerTransition ==
    \A s \in DoneWebhooks : reqs[s].replay => ~Contains(reqs[s].trace, "callback")

\* C6: a per-event handler never throws: whatever call fails in it, the error is
\* logged, the row it had written keeps the written values, and the endpoint
\* answers with the success acknowledgment.
C6_HandlerNeverThrows ==
    \A s \in DoneWebhooks :
        LET r == reqs[s]
            wrote == Contains(r.trace, "update") \/ Contains(r.trace, "create")
            written == IF Contains(r.trace, "update")
                       THEN HandlerUpdate(r.body.event, Entity(r.body, razorpaySubs), now)
                       ELSE HandlerCreate(r.body.event, Entity(r.body, razorpaySubs), r.ref)
        IN  Contains(r.trace, "handler")
            => /\ r.response = [status |-> 200, code |-> "received"]
               /\ \A i \in 1..Len(r.trace) :
                     (i > 1 /\ r.trace[i] = "throw" /\ r.trace[i - 1] # "onEvent")
                     => (i < Len(r.trace) /\ r.trace[i + 1] = "logger.error")
               /\ wrote => /\ HasRow(subscription, r.found)
                           /\ \A f \in DOMAIN written :
                                 RowById(subscription, r.found)[f] = written[f]

\* C6 witness: the user callback threw after the handler's update.
C6_Witness ==
    \E s \in DoneWebhooks :
        /\ Contains(reqs[s].trace, "update")
        /\ reqs[s].trace[Len(reqs[s].trace) - 1] = "throw"
        /\ reqs[s].response.status = 200

\* the request carries the HMAC of its body under the configured secret
Verified(r) ==
    /\ options.razorpayWebhookSecret # None
    /\ r.rawBody # NoText
    /\ r.signature = Hmac(options.razorpayWebhookSecret, r.rawBody)

\* C7: for every verified event, onEvent runs after the type-specific handler has
\* finished, and a throwing onEvent prevents neither the handler nor the success
\* response.
C7_OnEventAfterHandler ==
    \A s \in DoneWebhooks :
        LET r == reqs[s]
        IN  (Verified(r) /\ r.body # MalformedBody /\ options.onEvent)
            => /\ r.response.status = 200
               /\ Contains(r.trace, "onEvent")
               /\ \A i, j \in 1..Len(r.trace) :
                     (r.trace[i] = "onEvent" /\ r.trace[j] \in {"handler", "logger.info"})
                     => j < i

EffectCalls == {"onEvent", "handler", "findOne", "update", "create", "callback"}

\* C8: a request without configured secret, without signature, or whose signature
\* is not the HMAC of its body under the secret gets an error response and makes no
\* call with an effect; a missing secret or signature is reported before any HMAC.
C8_UnverifiedRequestHasNoEffect ==
    \A s \in Webhooks :
        LET r == reqs[s]
        IN  ~Verified(r)
            => /\ r.pc = "done" /\ r.response.status \in {400, 500}
               /\ \A i \in 1..Len(r.trace) : r.trace[i] \notin EffectCalls
               /\ (options.razorpayWebhookSecret = None \/ r.signature = NoSignature)
                     => r.trace = <<>>

\* C8 witness: with rows in the table, a request signed under another key was
\* rejected after the HMAC comparison and one without signature before it.
C8_Witness ==
    /\ Len(subscription) > 0
    /\ \E s \in DoneWebhooks :
          /\ options.razorpayWebhookSecret # None
          /\ reqs[s].signature.len = HexDigestLen
          /\ ~Verified(reqs[s])
          /\ reqs[s].response.code = "FAILED_TO_VERIFY_WEBHOOK"
          /\ reqs[s].trace = <<"hmac">>

\* C9: a signature whose length differs from the digest's is answered like a
\* content mismatch: the invalid-signature client error.
C9_LengthMismatchIsInvalidSignature ==
    \A s \in DoneWebhooks :
        (/\ options.razorpayWebhookSecret # None
         /\ reqs[s].signature.len \notin {0, HexDigestLen})
        => reqs[s].response = [status |-> 400, code |-> "FAILED_TO_VERIFY_WEBHOOK"]

VerificationErrors == {"WEBHOOK_SECRET_NOT_FOUND", "WEBHOOK_SIGNATURE_NOT_FOUND",
                       "FAILED_TO_VERIFY_WEBHOOK", "RangeError"}

\* C10: with a secret configured, a request signed with hmac(b, k) passes the
\* verification if k is the secret and b the body received, and is rejected as an
\* invalid signature if k is another secret or b another body.
C10_HmacVerification ==
    \A s \in Webhooks :
        \A k \in {"whsec", "other_secret"},
           b \in {reqs[s].rawBody, Mutate(reqs[s].rawBody)}
                  \cup {Text(reqs[s].body, f) : f \in Formats} :
            (/\ options.razorpayWebhookSecret # None
             /\ reqs[s].rawBody # NoText
             /\ reqs[s].signature = Hmac(k, b))
            => IF k = options.razorpayWebhookSecret /\ b = reqs[s].rawBody
               THEN Contains(reqs[s].trace, "hmac")
                    /\ reqs[s].response.code \notin VerificationErrors
               ELSE reqs[s].response = [status |-> 400, code |-> "FAILED_TO_VERIFY_WEBHOOK"]

\* C10 witness: a correctly signed event reached its handler.
C10_Witness ==
    \E s \in Webhooks :
        /\ Verified(reqs[s])
        /\ reqs[s].pc = "find"
        /\ reqs[s].body.event = "subscription.charged"

\* C11: whenever the endpoint computes the HMAC, it computes it over the text of
\* the request body exactly as it was received.
C11_HmacOverReceivedBody ==
    \A s \in Webhooks :
        Contains(reqs[s].trace, "hmac")
        => reqs[s].rawBody = Text(reqs[s].body, reqs[s].format)

Upgrades == {s \in Slots : reqs[s].kind = "upgrade"}

\* C12: with no authorizeReference hook, an upgrade request whose referenceId is not
\* the caller's user id is answered with a client error, and has made no remote call
\* and created no row.
C12_ForeignReferenceRejected ==
    \A s \in Upgrades :
        (/\ options.authorizeReference = "absent"
         /\ reqs[s].body.referenceId \notin {None, Session.user.id})
        => /\ reqs[s].pc = "done"
           /\ reqs[s].response.status = 400
           /\ reqs[s].trace = <<>>
           /\ reqs[s].rowId = 0 /\ reqs[s].remoteId = None

\* C12 witness: the request for another user's reference was refused while the
\* table held a row.
C12_Witness ==
    \E s \in Upgrades :
        /\ reqs[s].body.referenceId = "u2"
        /\ reqs[s].response.code = "REFERENCE_ID_NOT_ALLOWED"
        /\ Len(subscription) > 0

\* the requests to the action endpoints, upgrade included
Calls == {s \in Slots : reqs[s].kind \in ActionKinds \cup {"upgrade"}}

\* the request made no adapter call and no provider call, and was answered before the
\* endpoint body ran
Untouched(r) ==
    /\ r.pc = "done" /\ ~r.entered
    /\ r.trace = <<>> /\ r.rowId = 0 /\ r.remoteId = None

\* C13: for every action endpoint, the endpoint body runs for a reference other than
\* the caller's user id, or for an organization, only if authorizeReference is
\* configured and answered true for (user, referenceId, action); an organization
\* request without the hook fails with AUTHORIZE_REFERENCE_REQUIRED (400) and a
\* request the hook denies fails with UNAUTHORIZED (401), both without any provider
\* call or local change.
C13_ReferenceAuthorization ==
    \A s \in Calls :
        LET r == reqs[s]
            foreign == \/ r.body.referenceId \notin {None, Session.user.id}
                       \/ r.body.customerType = "organization"
        IN  /\ (r.entered /\ foreign)
               => /\ options.authorizeReference = "allow"
                  /\ r.authorized = [user |-> Session.user.id,
                                     referenceId |-> ActionReference(r.body),
                                     action |-> ActionName(r.kind)]
            /\ (r.body.customerType = "organization" /\ options.authorizeReference = "absent")
               => /\ Untouched(r)
                  /\ r.response = [status |-> 400, code |-> "AUTHORIZE_REFERENCE_REQUIRED"]
            /\ (r.authorized # NoCall /\ options.authorizeReference = "deny")
               => /\ Untouched(r)
                  /\ r.response = [status |-> 401, code |-> "UNAUTHORIZED"]

\* an action endpoint called the provider for another user's reference
C13_Witness ==
    \E s \in Calls :
        /\ reqs[s].kind \in ActionKinds
        /\ reqs[s].body.referenceId = "u2"
        /\ reqs[s].entered
        /\ Contains(reqs[s].trace, "remote." \o reqs[s].kind)

\* the statuses that are neither terminal nor created
LiveStatuses == {"authenticated", "active", "pending", "halted", "paused"}

\* C14: in every reachable state, for each (referenceId, groupId) pair at most one
\* local subscription of the plans sharing that group has a status that is neither
\* terminal nor created.
C14_OneLiveSubscriptionPerGroup ==
    \A i, j \in 1..Len(subscription) :
        (/\ i # j
         /\ subscription[i].referenceId = subscription[j].referenceId
         /\ subscription[i].groupId # None
         /\ subscription[i].groupId = subscription[j].groupId)
        => ~(/\ subscription[i].status \in LiveStatuses
             /\ subscription[j].status \in LiveStatuses)

\* the upgrade in slot s completes its lookup of the existing rows in this step
Looks(s) ==
    /\ reqs[s].kind = "upgrade" /\ reqs[s].pc = "u_find"
    /\ reqs'[s].pc # "u_find"
    /\ reqs'[s].response.code # "findMany threw"

\* a row of the reference (and of the plan's group) with one of the statuses targets
\* the plan
Targets(db, referenceId, plan, statuses) ==
    \E i \in 1..Len(db) :
        /\ SameReferenceAndGroup(db[i], referenceId, plan)
        /\ db[i].status \in statuses
        /\ db[i].plan = ToLowerCase(plan.name)

\* the upgrade is rejected as already subscribed, before any provider call or row
Rejected(r) ==
    /\ r.pc = "done"
    /\ r.response = [status |-> 400, code |-> "ALREADY_SUBSCRIBED_PLAN"]
    /\ r.rowId = 0 /\ r.remoteId = None
    /\ r.trace = <<"findMany">>

\* C15: an upgrade to a plan for which the reference already has an active local
\* subscription is rejected with the already-subscribed error, without a provider
\* call and without a new row, whatever other rows the reference has.
C15_ActiveSamePlanRejected ==
    [][\A s \in Slots :
         (/\ Looks(s)
          /\ Targets(subscription, reqs[s].referenceId, GetPlanByName(reqs[s].body.plan),
                     {"active"}))
         => Rejected(reqs'[s])]_vars

\* C16: an upgrade is rejected as already subscribed whenever a non-terminal row
\* (created, authenticated, active, pending, halted or paused) of the same reference,
\* and of the same group if the plan declares one, already targets the requested plan.
C16_NonTerminalSamePlanRejected ==
    [][\A s \in Slots :
         (/\ Looks(s)
          /\ Targets(subscription, reqs[s].referenceId, GetPlanByName(reqs[s].body.plan),
                     {"created"} \cup LiveStatuses))
         => Rejected(reqs'[s])]_vars

\* C17: after an upgrade call that failed once its row was created (the create-params
\* customization threw, or the remote create failed, and the cleanup itself did not
\* fail), the row that call created no longer exists.
C17_FailedUpgradeLeavesNoRow ==
    \A s \in Upgrades :
        (/\ reqs[s].pc = "done"
         /\ reqs[s].rowId # 0
         /\ reqs[s].response.status # 200
         /\ reqs[s].response.code # "delete threw")
        => ~HasRow(subscription, reqs[s].rowId)

\* the upgrade request in slot s creates its row in this step
Creates(s) ==
    /\ reqs[s].kind = "upgrade" /\ reqs[s].pc = "u_create"
    /\ reqs'[s].pc = "u_remote"

\* the activated handler in slot s updates, in this step, the row that the upgrade
\* call created for the provider subscription of the event
ActivatesUpgraded(s) ==
    /\ Writes(s) /\ reqs[s].body.event = "subscription.activated"
    /\ reqs[s].body.sid \in ApiSubs
    /\ LET id == razorpaySubs[reqs[s].body.sid].notes.subscriptionId
       IN  /\ HasRow(subscription, id)
           /\ RowById(subscription, id).status = "created"
           /\ RowById(subscription, id).razorpaySubscriptionId = reqs[s].body.sid

\* the record after the activated event: the one the upgrade created, now active
Activated(s) ==
    LET sid == reqs[s].body.sid
        row == RowById(subscription', razorpaySubs[sid].notes.subscriptionId)
    IN  /\ reqs[s].found = razorpaySubs[sid].notes.subscriptionId
        /\ Len(subscription') = Len(subscription)
        /\ row.status = "active" /\ row.plan = "pro"
        /\ row.razorpayPlanId = "plan_X"
        /\ row.razorpaySubscriptionId = sid

\* the webhook in slot s ends in this step, none of its handler's calls having failed
Processed(s) ==
    /\ reqs[s].kind = "webhook" /\ reqs[s].pc \in {"find", "write", "callback"}
    /\ reqs'[s].pc = "done"
    /\ ~Contains(reqs'[s].trace, "throw")

\* a row of the provider subscription sid holds every value of the update
Holds(db, sid, update) ==
    \E i \in RowsOf(db, sid) : \A f \in DOMAIN update : db[i][f] = update[f]

\* C18: when an action endpoint's provider call succeeded and its local write failed,
\* the local record holds the values of that write once the next webhook for the
\* subscription has been processed.
C18_NextWebhookHealsFailedWrite ==
    [][\A s \in Slots :
         (Processed(s) /\ unsynced[reqs[s].body.sid] # NoWrite)
         => Holds(subscription', reqs[s].body.sid, unsynced[reqs[s].body.sid])]_vars

\* C19 as stated: an upgrade for plan "pro" creates a record with status created,
\* plan "pro" and no provider plan id; the activated event for its provider
\* subscription moves that record to active with plan id plan_X and that
\* subscription id.
C19_CreatedWithoutProviderPlanId ==
    [][\A s \in Slots :
         /\ (Creates(s) /\ reqs[s].body.plan = "pro")
            => LET row == RowById(subscription', reqs'[s].rowId)
               IN  /\ row.status = "created" /\ row.plan = "pro"
                   /\ row.razorpayPlanId = None
         /\ ActivatesUpgraded(s) => Activated(s)]_vars

\* C19 amended: the record the upgrade creates has status created, plan "pro", the
\* provider plan id plan_X already and no provider subscription id; the activated
\* event for its provider subscription moves that record to active, with plan id
\* plan_X and that subscription id.
C19_CreatedThenActivated ==
    [][\A s \in Slots :
         /\ (Creates(s) /\ reqs[s].body.plan = "pro")
            => LET row == RowById(subscription', reqs'[s].rowId)
               IN  /\ row.status = "created" /\ row.plan = "pro"
                   /\ row.razorpayPlanId = "plan_X"
                   /\ row.razorpaySubscriptionId = None
         /\ ActivatesUpgraded(s) => Activated(s)]_vars

\* C19 witness: the first activated event for the subscription of an upgrade has
\* updated the upgrade's record.
C19_Witness ==
    \E s \in DoneWebhooks :
        /\ reqs[s].body.event = "subscription.activated"
        /\ reqs[s].body.sid \in ApiSubs
        /\ ~reqs[s].replay /\ Contains(reqs[s].trace, "update")
        /\ reqs[s].found = razorpaySubs[reqs[s].body.sid].notes.subscriptionId
        /\ RowById(subscription, reqs[s].found).status = "active"
        /\ RowById(subscription, reqs[s].found).razorpaySubscriptionId = reqs[s].body.sid

\* C20: the activated handler applied to a record that a completed event had
\* completed leaves its status active, and the handlers of both events end with the
\* success acknowledgment.
C20_CompletedThenActivated ==
    [][\A s \in Slots :
         /\ (/\ Writes(s) /\ reqs[s].body.event = "subscription.activated"
             /\ reqs[s].found # 0
             /\ RowById(subscription, reqs[s].found).status = "completed")
            => RowById(subscription', reqs[s].found).status = "active"
         /\ (/\ reqs[s].kind = "webhook"
             /\ reqs[s].pc \in {"find", "write", "callback"}
             /\ reqs[s].body.event \in {"subscription.completed", "subscription.activated"}
             /\ reqs'[s].kind = "webhook" /\ reqs'[s].pc = "done")
            => reqs'[s].response = [status |-> 200, code |-> "received"]]_vars

\* C20 witness: a record completed by a completed event (endedAt set, never
\* cancelled) is active after a later activated event.
C20_Witness ==
    \E s \in DoneWebhooks :
        /\ reqs[s].body.event = "subscription.activated"
        /\ Contains(reqs[s].trace, "update")
        /\ delivered[reqs[s].body.sid] = reqs[s].body
        /\ LET row == RowById(subscription, reqs[s].found)
           IN  row.status = "active" /\ row.endedAt # 0 /\ row.cancelledAt = 0

\* the call of the given kind in slot s completes its local write in this step
Acts(s, kind) ==
    /\ reqs[s].kind = kind /\ reqs[s].pc = "a_update"
    /\ reqs'[s].response.code = "ok"

\* the handler of an event of the given type in slot s updates an existing row in
\* this step
Updates(s, type) ==
    /\ Writes(s) /\ reqs[s].body.event = type
    /\ reqs[s].found # 0 /\ HasRow(subscription, reqs[s].found)

\* C21: a successful cancel call with cancelAtCycleEnd true sets the local
\* cancelAtCycleEnd flag and leaves status, cancelledAt and endedAt as they were; a
\* later cancelled event for that subscription sets status cancelled and sets
\* cancelledAt and endedAt.
C21_CancelAtCycleEndThenCancelled ==
    [][\A s \in Slots :
         /\ (Acts(s, "cancel") /\ reqs[s].body.cancelAtCycleEnd)
            => LET old == RowById(subscription, reqs[s].rowId)
                   new == RowById(subscription', reqs[s].rowId)
               IN  /\ new.cancelAtCycleEnd
                   /\ new.status = old.status
                   /\ new.cancelledAt = old.cancelledAt
                   /\ new.endedAt = old.endedAt
         /\ (/\ Updates(s, "subscription.cancelled")
             /\ RowById(subscription, reqs[s].found).cancelAtCycleEnd)
            => LET new == RowById(subscription', reqs[s].found)
               IN  /\ new.status = "cancelled"
                   /\ new.cancelledAt # 0 /\ new.endedAt # 0]_vars

\* C21 witness: the cancelled event has been applied to a record that a cancel call
\* had scheduled for cancellation at the end of the cycle.
C21_Witness ==
    \E s \in DoneWebhooks :
        /\ reqs[s].body.event = "subscription.cancelled"
        /\ Contains(reqs[s].trace, "update")
        /\ LET row == RowById(subscription, reqs[s].found)
           IN  row.cancelAtCycleEnd /\ row.status = "cancelled" /\ row.cancelledAt # 0

\* C22: a successful pause of an active subscription sets status paused and a
\* non-null pausedAt; a subsequent successful resume sets status active and pausedAt
\* to null.
C22_PauseThenResume ==
    [][\A s \in Slots :
         /\ (Acts(s, "pause") /\ RowById(subscription, reqs[s].rowId).status = "active")
            => LET new == RowById(subscription', reqs[s].rowId)
               IN  new.status = "paused" /\ new.pausedAt # 0
         /\ (Acts(s, "resume") /\ RowById(subscription, reqs[s].rowId).status = "paused")
            => LET new == RowById(subscription', reqs[s].rowId)
               IN  new.status = "active" /\ new.pausedAt = 0]_vars

\* C22 witness: a resume call has succeeded on a record that a pause call had
\* paused.
C22_Witness ==
    \E s \in Slots :
        /\ reqs[s].kind = "resume" /\ reqs[s].response.code = "ok"
        /\ delivered[reqs[s].remoteId] = [event |-> "api.resume", after |-> "api.pause"]
        /\ LET row == RowById(subscription, reqs[s].rowId)
           IN  row.status = "active" /\ row.pausedAt = 0

\* the call in slot s completes, in this step, its lookup of the reference's record,
\* and there is such a record
Finds(s, kind) ==
    /\ reqs[s].kind = kind /\ reqs[s].pc = "a_find"
    /\ reqs'[s].pc # "a_find"
    /\ reqs'[s].response.code # "find threw"
    /\ FindOneByReference(subscription, reqs[s].referenceId) # 0

\* the call was answered with a client error after its lookup, without a provider
\* call or a write
Refused(r) ==
    /\ r.pc = "done"
    /\ r.response.status \in {400, 404}
    /\ r.trace = <<"findOne">>

\* C23: pause on a subscription that is not active (an already paused one included)
\* and resume on a subscription that is not paused are rejected with a client error,
\* without a provider call and without a change of the local record.
C23_PauseResumePreconditions ==
    [][\A s \in Slots :
         LET row == subscription[FindOneByReference(subscription, reqs[s].referenceId)]
         IN  /\ (Finds(s, "pause") /\ row.status # "active")
                => Refused(reqs'[s]) /\ subscription' = subscription
             /\ (Finds(s, "resume") /\ row.status # "paused")
                => Refused(reqs'[s]) /\ subscription' = subscription]_vars

\* C23 witness: a pause call on an already paused record has been refused.
C23_Witness ==
    \E s \in Slots :
        /\ reqs[s].kind = "pause" /\ reqs[s].pc = "done"
        /\ reqs[s].response = [status |-> 400, code |-> "SUBSCRIPTION_NOT_ACTIVE"]
        /\ subscription[FindOneByReference(subscription, reqs[s].referenceId)].status
             = "paused"

\* C24: when pause, resume or immediate cancel has updated the local record and the
\* provider's event for that change (paused, resumed with status active, cancelled)
\* is processed next, the handler applies it without failing and the status after
\* the event is the status the call had set.
C24_EventConfirmsCall ==
    [][\A s \in Slots :
         /\ (/\ Writes(s) /\ reqs[s].found # 0
             /\ delivered[reqs[s].body.sid].event = ConfirmedCall(reqs[s].body))
            => RowById(subscription', reqs[s].found).status
                 = RowById(subscription, reqs[s].found).status
         /\ (/\ reqs[s].kind = "webhook" /\ reqs[s].confirms
             /\ reqs[s].pc = "callback" /\ reqs'[s].pc = "done")
            => reqs'[s].response = [status |-> 200, code |-> "received"]]_vars

\* C24 witness: the paused event that followed a pause call has been applied to the
\* record the call had paused.
C24_Witness ==
    \E s \in DoneWebhooks :
        /\ reqs[s].body.event = "subscription.paused"
        /\ reqs[s].confirms /\ Contains(reqs[s].trace, "update")
        /\ RowById(subscription, reqs[s].found).status = "paused"

\* the reference a creating handler has to resolve for a dashboard subscription,
\* None when there is nothing to resolve
LinkedReference(sid) ==
    CASE sid = "sub_shared" -> IF options.organizationEnabled THEN "org2" ELSE "u3"
      [] sid = "sub_org"    -> IF options.organizationEnabled THEN "org1" ELSE None
      [] sid = "sub_ext"    -> "u1"
      [] sid = "sub_notes"  -> "u9"
      [] OTHER              -> None

\* C25: a creating handler that finds no local row resolves the referenceId from the
\* organization with the event's customer id (only if organization billing is
\* enabled), else from the user with that customer id, else from the notes; when
\* none yields a reference it logs a warning, creates no row, invokes no callback and
\* does not throw.
C25_ReferenceResolutionOrder ==
    /\ \A i \in 1..Len(subscription) :
          subscription[i].referenceId
            = LinkedReference(subscription[i].razorpaySubscriptionId)
    /\ \A s \in DoneWebhooks :
          LinkedReference(reqs[s].body.sid) = None
          => /\ reqs[s].response = [status |-> 200, code |-> "received"]
             /\ ~Contains(reqs[s].trace, "create")
             /\ ~Contains(reqs[s].trace, "callback")
             /\ Contains(reqs[s].trace, "throw") \/ Contains(reqs[s].trace, "logger.warn")

\* C25 witness: with organization billing enabled, the subscription of the shared
\* customer got the organization's reference, and an event without any linkage was
\* answered after the warning.
C25_Witness ==
    /\ options.organizationEnabled
    /\ \E i \in 1..Len(subscription) :
          /\ subscription[i].razorpaySubscriptionId = "sub_shared"
          /\ subscription[i].referenceId = "org2"
    /\ \E s \in DoneWebhooks :
          /\ reqs[s].body.sid = "sub_lost"
          /\ reqs[s].trace = <<"hmac", "handler", "findOne", "logger.warn">>

\* the webhook in slot s went through its handler without a failing call, for a
\* provider subscription whose reference can be resolved
Handled(s) ==
    /\ reqs[s].kind = "webhook" /\ reqs[s].pc = "done"
    /\ Contains(reqs[s].trace, "handler") /\ ~Contains(reqs[s].trace, "throw")
    /\ ResolveReference(options, Entity(reqs[s].body, razorpaySubs)) # None

MappedStatus(ev) ==
    CASE ev.event = "subscription.authenticated" -> "authenticated"
      [] ev.event = "subscription.activated" -> "active"
      [] ev.event = "subscription.pending" -> "pending"
      [] ev.event = "subscription.halted" -> "halted"
      [] ev.event = "subscription.completed" -> "completed"
      [] ev.event = "subscription.paused" -> "paused"
      [] ev.event = "subscription.cancelled" -> "cancelled"
      [] OTHER -> IF ev.status = "unknown_status" THEN "created" ELSE ev.status

\* C27: for an existing local record each handler writes the status of the
\* field-mapping table: the status named after the event for authenticated,
\* activated (active), pending, halted, completed, paused and cancelled, and for
\* charged, updated and resumed the status the event reports, a status outside the
\* enumeration being stored as created.
C27_StatusPerEvent ==
    [][\A s \in Slots :
         (Writes(s) /\ reqs[s].found # 0)
         => RowById(subscription', reqs[s].found).status = MappedStatus(reqs[s].body)]_vars

\* C27 witness: a charged event reporting a status outside the enumeration has been
\* applied to an existing record, which now has status created.
C27_Witness ==
    \E s \in DoneWebhooks :
        /\ reqs[s].body.event = "subscription.charged"
        /\ reqs[s].body.status = "unknown_status"
        /\ Contains(reqs[s].trace, "update")
        /\ RowById(subscription, reqs[s].found).status = "created"

\* a notification of the organization plugin is handled in this step, in slot s
Notified(s, kind) ==
    /\ reqs[s] = Idle /\ reqs'[s] # Idle
    /\ reqs'[s].kind = kind

\* the rows of the organization that are active, carry a provider subscription id and
\* are on a plan with a quantity
SeatRows(db, org) ==
    {i \in 1..Len(db) : /\ db[i].referenceId = org.id
                        /\ db[i].status = "active"
                        /\ db[i].razorpaySubscriptionId # None
                        /\ db[i].plan \in QuantityPlanNames}

\* C28: whenever an organization has an active local subscription with a provider
\* subscription id on a plan with a quantity, a member-change notification pushes the
\* member count as quantity to the remote subscription and then stores it as the local
\* quantity (unless one of its calls fails); in every other case it changes nothing;
\* and it never throws to its caller.
C28_SeatSyncWheneverActive ==
    [][\A s \in Slots :
         Notified(s, "seats") =>
           LET r    == reqs'[s]
               rows == SeatRows(subscription, r.organization)
           IN  /\ r.response.code = "returned"
               /\ IF rows # {}
                  THEN ~Contains(r.trace, "logger.error") =>
                         \E i \in rows :
                           LET sid == subscription[i].razorpaySubscriptionId
                           IN  /\ "quantity" \in DOMAIN razorpaySubs'[sid]
                               /\ razorpaySubs'[sid].quantity = r.memberCount
                               /\ subscription'[i].quantity = r.memberCount
                  ELSE UNCHANGED <<subscription, razorpaySubs>>]_vars

\* C29: deleting an organization is blocked (the guard throws) whenever a local
\* subscription whose referenceId is that organization has status active, also when
\* the subscription was created for the organization through the upgrade endpoint.
C29_DeleteBlockedWhileActive ==
    [][\A s \in Slots :
         (/\ Notified(s, "delete")
          /\ \E i \in 1..Len(subscription) :
                /\ subscription[i].referenceId = reqs'[s].organization.id
                /\ subscription[i].status = "active")
         => reqs'[s].response.code # "returned"]_vars

\* C30: every local row a handler creates or updates for a provider subscription that
\* upgrade created has the referenceId upgrade stamped into the notes, also when the
\* event is handled between upgrade's remote create and its local write of
\* razorpaySubscriptionId, and when the upgrade was made for an organization with the
\* caller's customer id.
C30_ReconciledRowsKeepStampedReference ==
    [][\A s \in Slots :
         (Writes(s) /\ reqs[s].body.sid \in ApiSubs)
         => \A i \in 1..Len(subscription') :
              (i > Len(subscription) \/ subscription'[i] # subscription[i])
              => subscription'[i].referenceId
                   = razorpaySubs[reqs[s].body.sid].notes.referenceId]_vars

\* the remote call of the action endpoint in slot s fails in this step
RemoteFails(s) ==
    /\ reqs[s].kind \in ActionKinds /\ reqs[s].pc = "a_remote"
    /\ reqs'[s].pc = "done"

\* C31: when the remote call of cancel, pause, resume or update fails, the local
\* records are left as they were and the caller receives the failure error of that
\* action.
C31_RemoteFailureLeavesRecord ==
    [][\A s \in Slots :
         RemoteFails(s) =>
           /\ subscription' = subscription
           /\ reqs'[s].response.status = 500
           /\ reqs'[s].response.code =
                 (CASE reqs[s].kind = "cancel" -> "SUBSCRIPTION_CANCEL_FAILED"
                    [] reqs[s].kind = "pause"  -> "SUBSCRIPTION_PAUSE_FAILED"
                    [] reqs[s].kind = "resume" -> "SUBSCRIPTION_RESUME_FAILED"
                    [] reqs[s].kind = "update" -> "SUBSCRIPTION_UPDATE_FAILED")]_vars

\* C31 witness: a pause whose remote call failed has ended with the pause error, and
\* the record it was for is still active.
C31_Witness ==
    \E s \in Slots :
        /\ reqs[s].kind = "pause" /\ reqs[s].pc = "done"
        /\ reqs[s].response.code = "SUBSCRIPTION_PAUSE_FAILED"
        /\ reqs[s].trace = <<"findOne", "remote.pause", "logger.error">>
        /\ \E i \in 1..Len(subscription) : subscription[i].status = "active"

\* the reference has an active row that carries a provider subscription id
HasCurrent(db, referenceId) ==
    \E i \in 1..Len(db) : /\ db[i].referenceId = referenceId
                           /\ db[i].status = "active"
                           /\ db[i].razorpaySubscriptionId # None

\* C32: when the reference has an active row with a provider subscription id, pause
\* and cancel go on to the provider for an active row of the reference, and are not
\* rejected because of another row of the same reference.
C32_ActsOnCurrentSubscription ==
    [][\A s \in Slots :
         ((Finds(s, "pause") \/ Finds(s, "cancel"))
          /\ HasCurrent(subscription, reqs[s].referenceId))
         => /\ reqs'[s].pc = "a_remote"
            /\ RowById(subscription, reqs'[s].rowId).status = "active"]_vars

\* the handler of the webhook in slot s runs in this step
Enters(s) ==
    /\ reqs[s].kind = "webhook" /\ reqs[s].pc = "find"
    /\ reqs'[s] # reqs[s]

\* C33: a handler invoked while subscriptions are disabled, or with a payload without
\* subscription entity, makes no persistence read or write, invokes no callback and
\* returns without error: the endpoint answers 200 received.
C33_DisabledOrNoEntityDoesNothing ==
    [][\A s \in Slots :
         (Enters(s) /\ (~options.subscriptionEnabled \/ reqs[s].body.sid = None))
         => /\ reqs'[s].pc = "done"
            /\ reqs'[s].trace = reqs[s].trace
            /\ reqs'[s].response = [status |-> 200, code |-> "received"]
            /\ UNCHANGED <<subscription, nextId, razorpaySubs>>]_vars

\* C33 witness: with subscriptions disabled, an activated event that carries an entity
\* has been answered after the handler was entered and nothing else was called.
C33_Witness ==
    \E s \in DoneWebhooks :
        /\ ~options.subscriptionEnabled
        /\ reqs[s].body.event = "subscription.activated"
        /\ reqs[s].body.sid # None
        /\ reqs[s].trace = <<"hmac", "handler">>
        /\ reqs[s].response.status = 200

\* C34: every activated event that updates or creates a local record invokes the
\* onSubscriptionActivated callback after the write, whether or not the event's
\* provider plan id is the id of a configured plan.
C34_ActivatedAlwaysCallsBack ==
    \A s \in DoneWebhooks :
        LET trace == reqs[s].trace
        IN  (/\ reqs[s].body.event = "subscription.activated"
             /\ (Contains(trace, "update") \/ Contains(trace, "create")))
            => \E i, j \in 1..Len(trace) : /\ i < j
                                            /\ trace[i] \in {"update", "create"}
                                            /\ trace[j] = "callback"

\* the webhook request in slot s arrives or takes a step
WebhookSteps(s) ==
    /\ reqs'[s] # reqs[s]
    /\ reqs[s].kind = "webhook" \/ (reqs[s] = Idle /\ reqs'[s].kind = "webhook")

\* the rows of the table after the step that are new or differ from what they were
Touched(s) ==
    {i \in 1..Len(subscription') : i > Len(subscription) \/ subscription'[i] # subscription[i]}

\* C35: an event for provider subscription id X changes at most the one local row
\* matched to X and leaves every other row as it was; an event of a type without
\* handler changes no row; and no handler deletes a row.
C35_EventTouchesOnlyItsRow ==
    [][\A s \in Slots :
         WebhookSteps(s) =>
           LET ev == IF reqs[s] = Idle THEN reqs'[s].body ELSE reqs[s].body
           IN  /\ Len(subscription') >= Len(subscription)
               /\ \A i \in 1..Len(subscription) : subscription'[i].id = subscription[i].id
               /\ Cardinality(Touched(s)) <= 1
               /\ \A i \in Touched(s) : subscription'[i].razorpaySubscriptionId = ev.sid
               /\ ev.event \notin HandledEvents => subscription' = subscription]_vars

\* C35 witness: with two rows in the table, a halted event has been applied to the
\* row of its subscription, and the other row is not halted.
C35_Witness ==
    \E s \in DoneWebhooks :
        /\ reqs[s].body.event = "subscription.halted"
        /\ Contains(reqs[s].trace, "update")
        /\ Len(subscription) = 2
        /\ RowById(subscription, reqs[s].found).status = "halted"
        /\ \E i \in 1..Len(subscription) :
              /\ subscription[i].id # reqs[s].found
              /\ subscription[i].razorpaySubscriptionId # reqs[s].body.sid
              /\ subscription[i].status # "halted"

\* C36: in every reachable state the status of every local row is one of created,
\* authenticated, active, pending, halted, paused, cancelled, completed, expired,
\* whatever status strings the provider's events carry.
C36_StatusInEnumeration ==
    \A i \in 1..Len(subscription) :
        subscription[i].status \in {"created", "authenticated", "active", "pending",
                                    "halted", "paused", "cancelled", "completed",
                                    "expired"}

\* C36 witness: an updated event that reports a status outside the enumeration has
\* been applied to a record.
C36_Witness ==
    \E s \in DoneWebhooks :
        /\ reqs[s].body.event = "subscription.updated"
        /\ reqs[s].body.status \notin SubscriptionStatuses
        /\ Contains(reqs[s].trace, "update")
        /\ HasRow(subscription, reqs[s].found)

\* C37: in every reachable state, a local row whose razorpayPlanId is the planId or
\* annualPlanId of a configured plan has that plan's lower-cased name as plan, also
\* right after a successful update call that changes planId.
C37_PlanNameFollowsPlanId ==
    \A i \in 1..Len(subscription), p \in 1..Len(Plans) :
        (/\ subscription[i].razorpayPlanId # None
         /\ subscription[i].razorpayPlanId \in {Plans[p].planId, Plans[p].annualPlanId})
        => subscription[i].plan = ToLowerCase(Plans[p].name)

\* the upgrade in slot s gets its subscription created by the provider in this step
CreatesRemote(s) ==
    /\ reqs[s].kind = "upgrade" /\ reqs[s].pc = "u_remote"
    /\ reqs'[s].pc = "u_update"

\* C38: the remote create call of upgrade carries notes whose referenceId is the
\* resolved referenceId and whose subscriptionId is the id of the local row just
\* created, whatever notes or parameters the customization supplies.
C38_CreateCarriesInternalNotes ==
    [][\A s \in Slots :
         CreatesRemote(s) =>
           LET notes == razorpaySubs'[reqs'[s].remoteId].notes
           IN  /\ notes.referenceId = reqs[s].referenceId
               /\ notes.subscriptionId = reqs[s].rowId]_vars

====
